---------------------------- MODULE Spec2Model ----------------------------
(***************************************************************************)
(* Model of azul's AppResources (src/azul/src/app_resources.rs): the alias *)
(* registry, the source store, the resident fonts / font instances /       *)
(* images, the per-frame reference tracker and the two reconciliation      *)
(* phases add_fonts_and_images and garbage_collect_fonts_and_images.       *)
(*                                                                         *)
(* Maps (FastHashMap) are TLA+ functions, sets (FastHashSet) are sets.     *)
(* A hash map is iterated in an order the program does not control, so     *)
(* every loop over a map or a set takes its iteration order as an input.   *)
(* A panic (index of a missing key, unwrap of None) stops the program:     *)
(* panicked becomes TRUE and no operation runs after it.                   *)
(***************************************************************************)
EXTENDS Integers, Sequences, FiniteSets, TLC

\* ------------------------------------------------------------------ bounds

\* Nodes of one display list of Spec (text nodes plus image nodes).
MaxNodes == 3
\* Keys the render API hands out in Spec before the model stops minting.
MaxFontKeys == 2
MaxFontInstanceKeys == 3
MaxImageKeys == 2
\* Calls recorded in the trace of SpecCycles and of SpecIds.
MaxTrace == 5
\* ImageIds minted in SpecStore.
MaxIds == 2
\* FontIds minted in SpecStore.
MaxFontIds == 1
\* TextIds minted in SpecTexts.
MaxTextIds == 4
\* TextIds minted in SpecTextFrames.
MaxFrameTextIds == 2

\* ------------------------------------------------------------- value sets

\* Font sizes (Au) the scanned styles use.
Sizes == {10, 12}
\* font-family strings of the text nodes of the frames of Spec.
CssFontIds == {"Helvetica"}
\* The ImageIds the application mints with ImageId::new().
ImageIds == {0}

Resolved(font_id) == <<"Resolved", font_id>>
Unresolved(css_font_id) == <<"Unresolved", css_font_id>>

\* ImageSource: Raw never fails to load; Embedded and File are decoded and may fail.
ImageSourceRaw == <<"Raw", "pixels">>
ImageSourceFile == <<"File", "a.png">>
ImageSources == {ImageSourceRaw, ImageSourceFile}

\* FontSource: Embedded never fails; File and System may fail.
FontSourceEmbedded == <<"Embedded", "bytes">>
FontSourceFile == <<"File", "a.ttf">>
FontSourceSystem(id) == <<"System", id>>

\* --------------------------------------------------------------- variables

VARIABLES
    css_ids_to_image_ids,        \* CssImageId -> ImageId
    css_ids_to_font_ids,         \* CssFontId -> FontId
    image_sources,               \* ImageId -> ImageSource
    font_sources,                \* FontId -> FontSource
    currently_registered_images, \* ImageId -> ImageInfo
    currently_registered_fonts,  \* ImmediateFontId -> LoadedFont
    last_frame_image_keys,       \* set of ImageId
    last_frame_font_keys,        \* ImmediateFontId -> set of Au
    text_cache,                  \* TextId -> Words
    TEXT_ID_COUNTER,
    IMAGE_ID_COUNTER,
    FONT_ID_COUNTER,
    render_api,                  \* the next key of each kind the render API hands out
    api_calls,                   \* update_resources / flush_scene_builder calls of the last phase
    panicked,                    \* a panic stopped the program
    trace                        \* SpecCycles: one snapshot per reconciler call

program_vars == <<css_ids_to_image_ids, css_ids_to_font_ids, image_sources, font_sources,
                  currently_registered_images, currently_registered_fonts,
                  last_frame_image_keys, last_frame_font_keys, text_cache,
                  TEXT_ID_COUNTER, IMAGE_ID_COUNTER, FONT_ID_COUNTER, render_api,
                  api_calls, panicked>>

vars == <<program_vars, trace>>

\* ----------------------------------------------------------------- helpers

EmptyMap == [x \in {} |-> x]

\* HashMap::insert
MapInsert(m, k, v) == [x \in DOMAIN m \cup {k} |-> IF x = k THEN v ELSE m[x]]

\* HashMap::remove
MapRemove(m, k) == [x \in DOMAIN m \ {k} |-> m[x]]

\* An assignment in the place of extend: only the pairs of `other` are kept.
MapExtendAssigned(m, other) == other

\* HashMap::extend: every pair of `other` is inserted, replacing the value of a key
\* already present; keys only in `m` stay.
MapExtend(m, other) ==
    [x \in DOMAIN m \cup DOMAIN other |-> IF x \in DOMAIN other THEN other[x] ELSE m[x]]

\* The orders in which a hash set / hash map of these elements can be iterated.
Orders(S) ==
    {s \in [1..Cardinality(S) -> S] : \A i, j \in 1..Cardinality(S) : i # j => s[i] # s[j]}

\* One iteration order for the value set (or the key set of the value map) of every key.
OrdersOf(sets) ==
    {f \in [DOMAIN sets -> UNION {Orders(sets[k]) : k \in DOMAIN sets}] :
        \A k \in DOMAIN sets : f[k] \in Orders(sets[k])}


\* ------------------------------------------------------------ id counters

\* ImageId::new(): IMAGE_ID_COUNTER.fetch_add(1)
ImageIdNew ==
    /\ ~panicked
    /\ IMAGE_ID_COUNTER \in ImageIds
    /\ IMAGE_ID_COUNTER' = IMAGE_ID_COUNTER + 1
    /\ UNCHANGED <<css_ids_to_image_ids, css_ids_to_font_ids, image_sources, font_sources,
                   currently_registered_images, currently_registered_fonts,
                   last_frame_image_keys, last_frame_font_keys, text_cache,
                   TEXT_ID_COUNTER, FONT_ID_COUNTER, render_api,
                   api_calls, panicked>>

\* ------------------------------------------------------------ source store

\* ImageSource::get_bytes. `env` is the set of sources that can be read and decoded
\* at the time of the call. The decoded data and descriptor stand for the source.
ImageSourceGetBytes(image_source, env) ==
    IF image_source[1] = "Raw"
    THEN [ok |-> TRUE, descriptor |-> image_source]
    ELSE [ok |-> image_source \in env, descriptor |-> image_source]

\* FontSource::get_bytes. Embedded bytes are returned as they are; a file is read
\* and a system font is looked up, and both can fail.
FontSourceGetBytes(font_source, env) ==
    IF font_source[1] = "Embedded"
    THEN [ok |-> TRUE, font_bytes |-> font_source, font_index |-> 0]
    ELSE [ok |-> font_source \in env, font_bytes |-> font_source, font_index |-> 0]

\* AppResources::add_image
AddImage(image_id, image_source) ==
    /\ ~panicked
    /\ image_sources' = MapInsert(image_sources, image_id, image_source)
    /\ UNCHANGED <<css_ids_to_image_ids, css_ids_to_font_ids, font_sources,
                   currently_registered_images, currently_registered_fonts,
                   last_frame_image_keys, last_frame_font_keys, text_cache,
                   TEXT_ID_COUNTER, IMAGE_ID_COUNTER, FONT_ID_COUNTER, render_api,
                   api_calls, panicked>>

\* A delete_image that also drops the registered image of the id.
DeleteImageAndRegistered(image_id) ==
    /\ ~panicked
    /\ image_sources' = MapRemove(image_sources, image_id)
    /\ currently_registered_images' = MapRemove(currently_registered_images, image_id)
    /\ UNCHANGED <<css_ids_to_image_ids, css_ids_to_font_ids, font_sources,
                   currently_registered_fonts, last_frame_image_keys, last_frame_font_keys,
                   text_cache, TEXT_ID_COUNTER, IMAGE_ID_COUNTER, FONT_ID_COUNTER, render_api,
                   api_calls, panicked>>

\* AppResources::delete_image
DeleteImage(image_id) ==
    /\ ~panicked
    /\ image_sources' = MapRemove(image_sources, image_id)
    /\ UNCHANGED <<css_ids_to_image_ids, css_ids_to_font_ids, font_sources,
                   currently_registered_images, currently_registered_fonts,
                   last_frame_image_keys, last_frame_font_keys, text_cache,
                   TEXT_ID_COUNTER, IMAGE_ID_COUNTER, FONT_ID_COUNTER, render_api,
                   api_calls, panicked>>

\* An add_css_font_id that inserts a new FontId whether or not the alias is registered.
AddCssFontIdInserted(css_id) ==
    /\ ~panicked
    /\ css_ids_to_font_ids' = MapInsert(css_ids_to_font_ids, css_id, FONT_ID_COUNTER)
    /\ FONT_ID_COUNTER' = FONT_ID_COUNTER + 1
    /\ UNCHANGED <<css_ids_to_image_ids, image_sources, font_sources,
                   currently_registered_images, currently_registered_fonts,
                   last_frame_image_keys, last_frame_font_keys, text_cache, TEXT_ID_COUNTER,
                   IMAGE_ID_COUNTER, render_api, api_calls, panicked>>

\* AppResources::add_css_font_id: entry(css_id).or_insert_with(FontId::new)
AddCssFontId(css_id) ==
    /\ ~panicked
    /\ IF css_id \in DOMAIN css_ids_to_font_ids
       THEN UNCHANGED <<css_ids_to_font_ids, FONT_ID_COUNTER>>
       ELSE /\ css_ids_to_font_ids' = MapInsert(css_ids_to_font_ids, css_id, FONT_ID_COUNTER)
            /\ FONT_ID_COUNTER' = FONT_ID_COUNTER + 1
    /\ UNCHANGED <<css_ids_to_image_ids, image_sources, font_sources,
                   currently_registered_images, currently_registered_fonts,
                   last_frame_image_keys, last_frame_font_keys, text_cache,
                   TEXT_ID_COUNTER, IMAGE_ID_COUNTER, render_api,
                   api_calls, panicked>>

\* An add_font that also drops the registered font of the id.
AddFontAndRegistered(font_id, font_source) ==
    /\ ~panicked
    /\ font_sources' = MapInsert(font_sources, font_id, font_source)
    /\ currently_registered_fonts' = MapRemove(currently_registered_fonts, Resolved(font_id))
    /\ UNCHANGED <<css_ids_to_image_ids, css_ids_to_font_ids, image_sources,
                   currently_registered_images, last_frame_image_keys, last_frame_font_keys,
                   text_cache, TEXT_ID_COUNTER, IMAGE_ID_COUNTER, FONT_ID_COUNTER, render_api,
                   api_calls, panicked>>

\* AppResources::add_font
AddFont(font_id, font_source) ==
    /\ ~panicked
    /\ font_sources' = MapInsert(font_sources, font_id, font_source)
    /\ UNCHANGED <<css_ids_to_image_ids, css_ids_to_font_ids, image_sources,
                   currently_registered_images, currently_registered_fonts,
                   last_frame_image_keys, last_frame_font_keys, text_cache,
                   TEXT_ID_COUNTER, IMAGE_ID_COUNTER, FONT_ID_COUNTER, render_api,
                   api_calls, panicked>>

\* AppResources::delete_font
DeleteFont(font_id) ==
    /\ ~panicked
    /\ font_sources' = MapRemove(font_sources, font_id)
    /\ UNCHANGED <<css_ids_to_image_ids, css_ids_to_font_ids, image_sources,
                   currently_registered_images, currently_registered_fonts,
                   last_frame_image_keys, last_frame_font_keys, text_cache,
                   TEXT_ID_COUNTER, IMAGE_ID_COUNTER, FONT_ID_COUNTER, render_api,
                   api_calls, panicked>>

\* A delete_css_font_id that also removes the font source of the alias's FontId.
DeleteCssFontIdAndSource(css_id) ==
    /\ ~panicked
    /\ css_ids_to_font_ids' = MapRemove(css_ids_to_font_ids, css_id)
    /\ font_sources' = IF css_id \in DOMAIN css_ids_to_font_ids
                       THEN MapRemove(font_sources, css_ids_to_font_ids[css_id])
                       ELSE font_sources
    /\ UNCHANGED <<css_ids_to_image_ids, image_sources, currently_registered_images,
                   currently_registered_fonts, last_frame_image_keys, last_frame_font_keys,
                   text_cache, TEXT_ID_COUNTER, IMAGE_ID_COUNTER, FONT_ID_COUNTER, render_api,
                   api_calls, panicked>>

\* AppResources::delete_css_font_id: the alias is removed, whatever FontId it had.
DeleteCssFontId(css_id) ==
    /\ ~panicked
    /\ css_ids_to_font_ids' = MapRemove(css_ids_to_font_ids, css_id)
    /\ UNCHANGED <<css_ids_to_image_ids, image_sources, font_sources,
                   currently_registered_images, currently_registered_fonts,
                   last_frame_image_keys, last_frame_font_keys, text_cache, TEXT_ID_COUNTER,
                   IMAGE_ID_COUNTER, FONT_ID_COUNTER, render_api, api_calls, panicked>>

\* An add_css_image_id that binds the alias to the counter's value and leaves the
\* counter as it is.
AddCssImageIdCounterKept(css_id) ==
    /\ ~panicked
    /\ IF css_id \in DOMAIN css_ids_to_image_ids
       THEN UNCHANGED <<css_ids_to_image_ids, IMAGE_ID_COUNTER>>
       ELSE /\ css_ids_to_image_ids' = MapInsert(css_ids_to_image_ids, css_id, IMAGE_ID_COUNTER)
            /\ UNCHANGED IMAGE_ID_COUNTER
    /\ UNCHANGED <<css_ids_to_font_ids, image_sources, font_sources,
                   currently_registered_images, currently_registered_fonts,
                   last_frame_image_keys, last_frame_font_keys, text_cache, TEXT_ID_COUNTER,
                   FONT_ID_COUNTER, render_api, api_calls, panicked>>

\* AppResources::add_css_image_id: entry(css_id).or_insert_with(ImageId::new)
AddCssImageId(css_id) ==
    /\ ~panicked
    /\ IF css_id \in DOMAIN css_ids_to_image_ids
       THEN UNCHANGED <<css_ids_to_image_ids, IMAGE_ID_COUNTER>>
       ELSE /\ css_ids_to_image_ids' = MapInsert(css_ids_to_image_ids, css_id, IMAGE_ID_COUNTER)
            /\ IMAGE_ID_COUNTER' = IMAGE_ID_COUNTER + 1
    /\ UNCHANGED <<css_ids_to_font_ids, image_sources, font_sources,
                   currently_registered_images, currently_registered_fonts,
                   last_frame_image_keys, last_frame_font_keys, text_cache, TEXT_ID_COUNTER,
                   FONT_ID_COUNTER, render_api, api_calls, panicked>>

\* A delete_css_image_id that also drops the registered image of the alias's ImageId.
DeleteCssImageIdAndRegistered(css_id) ==
    /\ ~panicked
    /\ css_ids_to_image_ids' = MapRemove(css_ids_to_image_ids, css_id)
    /\ currently_registered_images' =
           IF css_id \in DOMAIN css_ids_to_image_ids
           THEN MapRemove(currently_registered_images, css_ids_to_image_ids[css_id])
           ELSE currently_registered_images
    /\ UNCHANGED <<css_ids_to_font_ids, image_sources, font_sources,
                   currently_registered_fonts, last_frame_image_keys, last_frame_font_keys,
                   text_cache, TEXT_ID_COUNTER, IMAGE_ID_COUNTER, FONT_ID_COUNTER, render_api,
                   api_calls, panicked>>

\* AppResources::delete_css_image_id
DeleteCssImageId(css_id) ==
    /\ ~panicked
    /\ css_ids_to_image_ids' = MapRemove(css_ids_to_image_ids, css_id)
    /\ UNCHANGED <<css_ids_to_font_ids, image_sources, font_sources,
                   currently_registered_images, currently_registered_fonts,
                   last_frame_image_keys, last_frame_font_keys, text_cache, TEXT_ID_COUNTER,
                   IMAGE_ID_COUNTER, FONT_ID_COUNTER, render_api, api_calls, panicked>>

\* The Option a lookup or a removal of key k in map m returns: <<v>> is Some(v),
\* <<>> is None.
MapGet(m, k) == IF k \in DOMAIN m THEN <<m[k]>> ELSE <<>>

\* FontId::new(): FONT_ID_COUNTER.fetch_add(1)
FontIdNew ==
    /\ ~panicked
    /\ FONT_ID_COUNTER' = FONT_ID_COUNTER + 1
    /\ UNCHANGED <<css_ids_to_image_ids, css_ids_to_font_ids, image_sources, font_sources,
                   currently_registered_images, currently_registered_fonts,
                   last_frame_image_keys, last_frame_font_keys, text_cache, TEXT_ID_COUNTER,
                   IMAGE_ID_COUNTER, render_api, api_calls, panicked>>

\* ------------------------------------------------------------- text cache

\* A TextId::new that numbers the texts by the size of the cache.
TextIdNewByLen == Cardinality(DOMAIN text_cache)

\* TextId::new(): the value TEXT_ID_COUNTER.fetch_add(1) returns.
TextIdNew == TEXT_ID_COUNTER

\* The texts an application adds, by name, and the characters of each.
Texts == {"lorem ipsum"}
CachedTexts == Texts \cup {"dolor"}
TextChars ==
    [text \in CachedTexts |->
        IF text = "lorem ipsum"
        THEN <<"l", "o", "r", "e", "m", " ", "i", "p", "s", "u", "m">>
        ELSE <<"d", "o", "l", "o", "r">>]

\* text_layout::split_text_into_words, of which this file has only the call: the
\* words of the text, a word being a longest run of characters that are not spaces.
\* acc = [words, word]: the words finished so far and the word being read.
RECURSIVE split_words_loop(_, _)
split_words_loop(acc, chars) ==
    LET finished == IF acc.word = <<>> THEN acc.words ELSE Append(acc.words, acc.word)
    IN IF chars = <<>> THEN finished
       ELSE IF Head(chars) = " "
       THEN split_words_loop([words |-> finished, word |-> <<>>], Tail(chars))
       ELSE split_words_loop([acc EXCEPT !.word = Append(@, Head(chars))], Tail(chars))

split_text_into_words(text) == split_words_loop([words |-> <<>>, word |-> <<>>], TextChars[text])

\* AppResources::get_text -> TextCache::get_text: the words of the id, if any.
GetText(cache, text_id) == IF text_id \in DOMAIN cache THEN <<cache[text_id]>> ELSE <<>>

\* AppResources::add_text -> TextCache::add_text: a new TextId for the words of the
\* text.
AddText(text) ==
    /\ ~panicked
    /\ text_cache' = MapInsert(text_cache, TextIdNew, split_text_into_words(text))
    /\ TEXT_ID_COUNTER' = TEXT_ID_COUNTER + 1
    /\ UNCHANGED <<css_ids_to_image_ids, css_ids_to_font_ids, image_sources, font_sources,
                   currently_registered_images, currently_registered_fonts,
                   last_frame_image_keys, last_frame_font_keys, IMAGE_ID_COUNTER,
                   FONT_ID_COUNTER, render_api, api_calls, panicked>>

\* A delete_text that empties the cache.
DeleteTextAll(id) ==
    /\ ~panicked
    /\ text_cache' = EmptyMap
    /\ UNCHANGED <<css_ids_to_image_ids, css_ids_to_font_ids, image_sources, font_sources,
                   currently_registered_images, currently_registered_fonts,
                   last_frame_image_keys, last_frame_font_keys, TEXT_ID_COUNTER,
                   IMAGE_ID_COUNTER, FONT_ID_COUNTER, render_api, api_calls, panicked>>

\* AppResources::delete_text -> TextCache::delete_text
DeleteText(id) ==
    /\ ~panicked
    /\ text_cache' = MapRemove(text_cache, id)
    /\ UNCHANGED <<css_ids_to_image_ids, css_ids_to_font_ids, image_sources, font_sources,
                   currently_registered_images, currently_registered_fonts,
                   last_frame_image_keys, last_frame_font_keys, TEXT_ID_COUNTER,
                   IMAGE_ID_COUNTER, FONT_ID_COUNTER, render_api, api_calls, panicked>>

\* A clear_all_texts that also clears the two last_frame maps.
ClearAllTextsAndFrame ==
    /\ ~panicked
    /\ text_cache' = EmptyMap
    /\ last_frame_image_keys' = {}
    /\ last_frame_font_keys' = EmptyMap
    /\ UNCHANGED <<css_ids_to_image_ids, css_ids_to_font_ids, image_sources, font_sources,
                   currently_registered_images, currently_registered_fonts, TEXT_ID_COUNTER,
                   IMAGE_ID_COUNTER, FONT_ID_COUNTER, render_api, api_calls, panicked>>

\* AppResources::clear_all_texts -> TextCache::clear_all_texts
ClearAllTexts ==
    /\ ~panicked
    /\ text_cache' = EmptyMap
    /\ UNCHANGED <<css_ids_to_image_ids, css_ids_to_font_ids, image_sources, font_sources,
                   currently_registered_images, currently_registered_fonts,
                   last_frame_image_keys, last_frame_font_keys, TEXT_ID_COUNTER,
                   IMAGE_ID_COUNTER, FONT_ID_COUNTER, render_api, api_calls, panicked>>

\* -------------------------------------------------------------------- scan

\* A display list, as far as the two scans read it: the text nodes (font-family and
\* font size of the node's style), the Image(id) nodes, and the css image ids of the
\* backgrounds of the other nodes.
DisplayList(texts, images, backgrounds) ==
    [texts |-> texts, images |-> images, backgrounds |-> backgrounds]

\* The lookup of a text node's css font id in css_ids_to_font_ids.
ImmediateFontId(css_to_font, css_font_id) ==
    IF css_font_id \in DOMAIN css_to_font
    THEN Resolved(css_to_font[css_font_id])
    ELSE Unresolved(css_font_id)

\* scan_ui_description_for_font_keys: ImmediateFontId -> the sizes it is used at.
scan_ui_description_for_font_keys(css_to_font, display_list) ==
    LET ids == {ImmediateFontId(css_to_font, t[1]) : t \in display_list.texts}
    IN [id \in ids |->
            {t[2] : t \in {u \in display_list.texts : ImmediateFontId(css_to_font, u[1]) = id}}]

\* scan_ui_description_for_image_keys: the Image(id) nodes, and the backgrounds whose
\* css image id is registered.
scan_ui_description_for_image_keys(css_to_image, display_list) ==
    display_list.images
        \cup {css_to_image[c] : c \in display_list.backgrounds \cap DOMAIN css_to_image}

\* ------------------------------------------------------- resource messages

\* LoadedFont::new: a loaded font with no font instances.
LoadedFontNew(font_key, font_bytes, font_index) ==
    [font_key |-> font_key, font_bytes |-> font_bytes, font_index |-> font_index,
     font_instances |-> EmptyMap]

AddFontMsgFont(loaded_font) == [msg |-> "Font", font |-> loaded_font]
AddFontMsgInstance(key, font_key, size) ==
    [msg |-> "Instance", key |-> key, font_key |-> font_key, size |-> size]
DeleteFontMsgFont(font_key) == [msg |-> "Font", font_key |-> font_key]
DeleteFontMsgInstance(key, size) == [msg |-> "Instance", key |-> key, size |-> size]

\* AddFontMsg::into_resource_update
AddFontMsgIntoResourceUpdate(m) ==
    IF m.msg = "Font"
    THEN [update |-> "AddFont", key |-> m.font.font_key, font_bytes |-> m.font.font_bytes,
          font_index |-> m.font.font_index]
    ELSE [update |-> "AddFontInstance", key |-> m.key, font_key |-> m.font_key,
          glyph_size |-> m.size]

\* DeleteFontMsg::into_resource_update
DeleteFontMsgIntoResourceUpdate(m) ==
    IF m.msg = "Font"
    THEN [update |-> "DeleteFont", key |-> m.font_key]
    ELSE [update |-> "DeleteFontInstance", key |-> m.key]

\* AddImageMsg::into_resource_update
AddImageMsgIntoResourceUpdate(m) ==
    [update |-> "AddImage", key |-> m.key, descriptor |-> m.descriptor]

\* DeleteImageMsg::into_resource_update
DeleteImageMsgIntoResourceUpdate(m) == [update |-> "DeleteImage", key |-> m.key]

\* iter().map(|(_, m)| into(m)): the resource updates of a list of (id, message) pairs.
RECURSIVE MapUpdates(_, _)
MapUpdates(pairs, kind) ==
    IF pairs = <<>> THEN <<>>
    ELSE LET m == Head(pairs)[2]
             u == CASE kind = "AddFont" -> AddFontMsgIntoResourceUpdate(m)
                    [] kind = "DeleteFont" -> DeleteFontMsgIntoResourceUpdate(m)
                    [] kind = "AddImage" -> AddImageMsgIntoResourceUpdate(m)
                    [] OTHER -> DeleteImageMsgIntoResourceUpdate(m)
         IN <<u>> \o MapUpdates(Tail(pairs), kind)

\* --------------------------------------------------------------- add phase

\* insert_font_instances!, once per size of `sizes` in its order: a size that has no
\* instance key in currently_registered_fonts gets a new key and an Instance message.
\* acc = [resource_updates, render_api, load_log].
RECURSIVE insert_font_instances(_, _, _, _, _)
insert_font_instances(acc, registered_fonts, font_id, font_key, sizes) ==
    IF sizes = <<>> THEN acc
    ELSE LET font_size == Head(sizes)
             font_instance_key_exists ==
                 /\ font_id \in DOMAIN registered_fonts
                 /\ font_size \in DOMAIN registered_fonts[font_id].font_instances
             font_instance_key == acc.render_api.font_instance_key
             next ==
                 IF font_instance_key_exists THEN acc
                 ELSE [acc EXCEPT
                         !.resource_updates =
                             Append(@, <<font_id,
                                         AddFontMsgInstance(font_instance_key, font_key, font_size)>>),
                         !.render_api.font_instance_key = @ + 1]
         IN insert_font_instances(next, registered_fonts, font_id, font_key, Tail(sizes))

\* A loop body that adds nothing for a font that is already registered.
build_add_font_step_registered_skipped(acc, registered_fonts, sources, im_font_id, sizes, env) ==
    IF im_font_id \in DOMAIN registered_fonts
    THEN acc
    ELSE IF im_font_id[1] = "Resolved" /\ im_font_id[2] \notin DOMAIN sources
    THEN acc
    ELSE LET font_source == IF im_font_id[1] = "Resolved"
                            THEN sources[im_font_id[2]]
                            ELSE FontSourceSystem(im_font_id[2])
             bytes == FontSourceGetBytes(font_source, env)
             font_key == acc.render_api.font_key
             added == [acc EXCEPT
                         !.resource_updates =
                             Append(@, <<im_font_id,
                                         AddFontMsgFont(LoadedFontNew(font_key, bytes.font_bytes,
                                                                      bytes.font_index))>>),
                         !.render_api.font_key = @ + 1]
         IN IF ~bytes.ok \/ sizes = <<>> THEN acc
            ELSE insert_font_instances(added, registered_fonts, im_font_id, font_key, sizes)

\* A loop body that goes on with the font after its load failed.
build_add_font_step_error_ignored(acc, registered_fonts, sources, im_font_id, sizes, env) ==
    IF im_font_id \in DOMAIN registered_fonts
    THEN insert_font_instances(acc, registered_fonts, im_font_id,
                               registered_fonts[im_font_id].font_key, sizes)
    ELSE IF im_font_id[1] = "Resolved" /\ im_font_id[2] \notin DOMAIN sources
    THEN acc
    ELSE LET font_source == IF im_font_id[1] = "Resolved"
                            THEN sources[im_font_id[2]]
                            ELSE FontSourceSystem(im_font_id[2])
             bytes == FontSourceGetBytes(font_source, env)
             loaded == [acc EXCEPT !.load_log = @ \cup {<<"font", im_font_id, bytes.ok>>}]
             font_key == acc.render_api.font_key
             added == [loaded EXCEPT
                         !.resource_updates =
                             Append(@, <<im_font_id,
                                         AddFontMsgFont(LoadedFontNew(font_key, bytes.font_bytes,
                                                                      bytes.font_index))>>),
                         !.render_api.font_key = @ + 1]
         IN IF sizes = <<>> THEN loaded
            ELSE insert_font_instances(added, registered_fonts, im_font_id, font_key, sizes)

\* A loop body that loads the font source before it looks the font up, so that a
\* registered font is loaded again.
build_add_font_step_loaded_first(acc, registered_fonts, sources, im_font_id, sizes, env) ==
    IF im_font_id[1] = "Resolved" /\ im_font_id[2] \notin DOMAIN sources
    THEN IF im_font_id \in DOMAIN registered_fonts
         THEN insert_font_instances(acc, registered_fonts, im_font_id,
                                    registered_fonts[im_font_id].font_key, sizes)
         ELSE acc
    ELSE LET font_source == IF im_font_id[1] = "Resolved"
                            THEN sources[im_font_id[2]]
                            ELSE FontSourceSystem(im_font_id[2])
             bytes == FontSourceGetBytes(font_source, env)
             loaded == [acc EXCEPT !.load_log = @ \cup {<<"font", im_font_id, bytes.ok>>}]
             font_key == acc.render_api.font_key
             added == [loaded EXCEPT
                         !.resource_updates =
                             Append(@, <<im_font_id,
                                         AddFontMsgFont(LoadedFontNew(font_key, bytes.font_bytes,
                                                                      bytes.font_index))>>),
                         !.render_api.font_key = @ + 1]
         IN IF im_font_id \in DOMAIN registered_fonts
            THEN insert_font_instances(loaded, registered_fonts, im_font_id,
                                       registered_fonts[im_font_id].font_key, sizes)
            ELSE IF ~bytes.ok THEN loaded
            ELSE IF sizes = <<>> THEN loaded
            ELSE insert_font_instances(added, registered_fonts, im_font_id, font_key, sizes)

\* A loop body that obtains a new font key for the instances it adds to a registered font.
build_add_font_step_instances_rekeyed(acc, registered_fonts, sources, im_font_id, sizes, env) ==
    IF im_font_id \in DOMAIN registered_fonts
    THEN insert_font_instances([acc EXCEPT !.render_api.font_key = @ + 1], registered_fonts,
                               im_font_id, acc.render_api.font_key, sizes)
    ELSE IF im_font_id[1] = "Resolved" /\ im_font_id[2] \notin DOMAIN sources
    THEN acc
    ELSE LET font_source == IF im_font_id[1] = "Resolved"
                            THEN sources[im_font_id[2]]
                            ELSE FontSourceSystem(im_font_id[2])
             bytes == FontSourceGetBytes(font_source, env)
             loaded == [acc EXCEPT !.load_log = @ \cup {<<"font", im_font_id, bytes.ok>>}]
             font_key == acc.render_api.font_key
             added == [loaded EXCEPT
                         !.resource_updates =
                             Append(@, <<im_font_id,
                                         AddFontMsgFont(LoadedFontNew(font_key, bytes.font_bytes,
                                                                      bytes.font_index))>>),
                         !.render_api.font_key = @ + 1]
         IN IF ~bytes.ok THEN loaded
            ELSE IF sizes = <<>> THEN loaded
            ELSE insert_font_instances(added, registered_fonts, im_font_id, font_key, sizes)

\* A loop body that loads the embedded default font for a FontId that has no source.
build_add_font_step_default_source(acc, registered_fonts, sources, im_font_id, sizes, env) ==
    IF im_font_id \in DOMAIN registered_fonts
    THEN insert_font_instances(acc, registered_fonts, im_font_id,
                               registered_fonts[im_font_id].font_key, sizes)
    ELSE LET font_source == IF im_font_id[1] = "Unresolved"
                            THEN FontSourceSystem(im_font_id[2])
                            ELSE IF im_font_id[2] \in DOMAIN sources
                            THEN sources[im_font_id[2]]
                            ELSE FontSourceEmbedded
             bytes == FontSourceGetBytes(font_source, env)
             loaded == [acc EXCEPT !.load_log = @ \cup {<<"font", im_font_id, bytes.ok>>}]
             font_key == acc.render_api.font_key
             added == [loaded EXCEPT
                         !.resource_updates =
                             Append(@, <<im_font_id,
                                         AddFontMsgFont(LoadedFontNew(font_key, bytes.font_bytes,
                                                                      bytes.font_index))>>),
                         !.render_api.font_key = @ + 1]
         IN IF ~bytes.ok THEN loaded
            ELSE IF sizes = <<>> THEN loaded
            ELSE insert_font_instances(added, registered_fonts, im_font_id, font_key, sizes)

\* A loop body without the test for an empty set of sizes.
build_add_font_step_empty_sizes_added(acc, registered_fonts, sources, im_font_id, sizes, env) ==
    IF im_font_id \in DOMAIN registered_fonts
    THEN insert_font_instances(acc, registered_fonts, im_font_id,
                               registered_fonts[im_font_id].font_key, sizes)
    ELSE IF im_font_id[1] = "Resolved" /\ im_font_id[2] \notin DOMAIN sources
    THEN acc
    ELSE LET font_source == IF im_font_id[1] = "Resolved"
                            THEN sources[im_font_id[2]]
                            ELSE FontSourceSystem(im_font_id[2])
             bytes == FontSourceGetBytes(font_source, env)
             loaded == [acc EXCEPT !.load_log = @ \cup {<<"font", im_font_id, bytes.ok>>}]
             font_key == acc.render_api.font_key
             added == [loaded EXCEPT
                         !.resource_updates =
                             Append(@, <<im_font_id,
                                         AddFontMsgFont(LoadedFontNew(font_key, bytes.font_bytes,
                                                                      bytes.font_index))>>),
                         !.render_api.font_key = @ + 1]
         IN IF ~bytes.ok THEN loaded
            ELSE insert_font_instances(added, registered_fonts, im_font_id, font_key, sizes)

\* A loop body that pushes the Font message of a new font after its Instance messages.
build_add_font_step_instances_first(acc, registered_fonts, sources, im_font_id, sizes, env) ==
    IF im_font_id \in DOMAIN registered_fonts
    THEN insert_font_instances(acc, registered_fonts, im_font_id,
                               registered_fonts[im_font_id].font_key, sizes)
    ELSE IF im_font_id[1] = "Resolved" /\ im_font_id[2] \notin DOMAIN sources
    THEN acc
    ELSE LET font_source == IF im_font_id[1] = "Resolved"
                            THEN sources[im_font_id[2]]
                            ELSE FontSourceSystem(im_font_id[2])
             bytes == FontSourceGetBytes(font_source, env)
             loaded == [acc EXCEPT !.load_log = @ \cup {<<"font", im_font_id, bytes.ok>>}]
             font_key == acc.render_api.font_key
             instances == insert_font_instances([loaded EXCEPT !.render_api.font_key = @ + 1],
                                                registered_fonts, im_font_id, font_key, sizes)
         IN IF ~bytes.ok THEN loaded
            ELSE IF sizes = <<>> THEN loaded
            ELSE [instances EXCEPT
                    !.resource_updates =
                        Append(@, <<im_font_id,
                                    AddFontMsgFont(LoadedFontNew(font_key, bytes.font_bytes,
                                                                 bytes.font_index))>>)]

\* The body of the loop of build_add_font_resource_updates for one font of the frame.
build_add_font_step(acc, registered_fonts, sources, im_font_id, sizes, env) ==
    IF im_font_id \in DOMAIN registered_fonts
    THEN insert_font_instances(acc, registered_fonts, im_font_id,
                               registered_fonts[im_font_id].font_key, sizes)
    ELSE IF im_font_id[1] = "Resolved" /\ im_font_id[2] \notin DOMAIN sources
    THEN acc
    ELSE LET font_source == IF im_font_id[1] = "Resolved"
                            THEN sources[im_font_id[2]]
                            ELSE FontSourceSystem(im_font_id[2])
             bytes == FontSourceGetBytes(font_source, env)
             loaded == [acc EXCEPT !.load_log = @ \cup {<<"font", im_font_id, bytes.ok>>}]
             font_key == acc.render_api.font_key
             added == [loaded EXCEPT
                         !.resource_updates =
                             Append(@, <<im_font_id,
                                         AddFontMsgFont(LoadedFontNew(font_key, bytes.font_bytes,
                                                                      bytes.font_index))>>),
                         !.render_api.font_key = @ + 1]
         IN IF ~bytes.ok THEN loaded
            ELSE IF sizes = <<>> THEN loaded
            ELSE insert_font_instances(added, registered_fonts, im_font_id, font_key, sizes)

\* build_add_font_resource_updates: the loop over fonts_in_dom, in the order
\* font_order, the sizes of each font in the order size_order gives it.
RECURSIVE build_add_font_loop(_, _, _, _, _, _)
build_add_font_loop(acc, registered_fonts, sources, font_order, size_order, env) ==
    IF font_order = <<>> THEN acc
    ELSE build_add_font_loop(
            build_add_font_step(acc, registered_fonts, sources, Head(font_order),
                                size_order[Head(font_order)], env),
            registered_fonts, sources, Tail(font_order), size_order, env)

\* A build_add_font_resource_updates that numbers its font keys itself, from the render
\* API's next key on, and asks the render API for instance keys only.
build_add_font_resource_updates_font_keys_predicted(api, registered_fonts, sources, font_order, size_order, env) ==
    [build_add_font_loop([resource_updates |-> <<>>, render_api |-> api, load_log |-> {}],
                         registered_fonts, sources, font_order, size_order, env)
        EXCEPT !.render_api.font_key = api.font_key]

build_add_font_resource_updates(api, registered_fonts, sources, font_order, size_order, env) ==
    build_add_font_loop([resource_updates |-> <<>>, render_api |-> api, load_log |-> {}],
                        registered_fonts, sources, font_order, size_order, env)

\* build_add_image_resource_updates: the images of the frame that are not registered
\* and whose source is present and loads, each with a new image key.
RECURSIVE build_add_image_loop(_, _, _, _, _)
build_add_image_loop(acc, registered_images, sources, image_order, env) ==
    IF image_order = <<>> THEN acc
    ELSE LET image_id == Head(image_order)
             bytes == ImageSourceGetBytes(sources[image_id], env)
             key == acc.render_api.image_key
             next ==
                 IF image_id \in DOMAIN registered_images THEN acc
                 ELSE IF image_id \notin DOMAIN sources THEN acc
                 ELSE IF ~bytes.ok
                 THEN [acc EXCEPT !.load_log = @ \cup {<<"image", image_id, FALSE>>}]
                 ELSE [acc EXCEPT
                         !.load_log = @ \cup {<<"image", image_id, TRUE>>},
                         !.resource_updates =
                             Append(@, <<image_id, [key |-> key, descriptor |-> bytes.descriptor]>>),
                         !.render_api.image_key = @ + 1]
         IN build_add_image_loop(next, registered_images, sources, Tail(image_order), env)

\* A build_add_image_resource_updates without the filter on the registered images.
build_add_image_resource_updates_unfiltered(api, registered_images, sources, image_order, env) ==
    build_add_image_loop([resource_updates |-> <<>>, render_api |-> api, load_log |-> {}],
                         EmptyMap, sources, image_order, env)

\* A build_add_image_resource_updates that numbers its image keys itself, from the
\* render API's next key on, and asks the render API for none.
build_add_image_resource_updates_keys_predicted(api, registered_images, sources, image_order, env) ==
    [build_add_image_loop([resource_updates |-> <<>>, render_api |-> api, load_log |-> {}],
                          registered_images, sources, image_order, env)
        EXCEPT !.render_api = api]

build_add_image_resource_updates(api, registered_images, sources, image_order, env) ==
    build_add_image_loop([resource_updates |-> <<>>, render_api |-> api, load_log |-> {}],
                         registered_images, sources, image_order, env)

\* An add_resources that submits its batch and does not flush the scene builder.
add_resources_calls_without_flush(add_font_resources, add_image_resources) ==
    LET merged_resource_updates ==
            MapUpdates(add_font_resources, "AddFont") \o MapUpdates(add_image_resources, "AddImage")
    IN IF merged_resource_updates # <<>>
       THEN << [call |-> "update_resources", updates |-> merged_resource_updates] >>
       ELSE <<>>

\* An add_resources that merges the image updates before the font updates.
add_resources_calls_images_first(add_font_resources, add_image_resources) ==
    LET merged_resource_updates ==
            MapUpdates(add_image_resources, "AddImage") \o MapUpdates(add_font_resources, "AddFont")
    IN IF merged_resource_updates # <<>>
       THEN << [call |-> "update_resources", updates |-> merged_resource_updates],
               [call |-> "flush_scene_builder", updates |-> <<>>] >>
       ELSE <<>>

\* add_resources, the calls: one update_resources with the font updates followed by the
\* image updates, then flush_scene_builder; nothing when there is no update.
add_resources_calls(add_font_resources, add_image_resources) ==
    LET merged_resource_updates ==
            MapUpdates(add_font_resources, "AddFont") \o MapUpdates(add_image_resources, "AddImage")
    IN IF merged_resource_updates # <<>>
       THEN << [call |-> "update_resources", updates |-> merged_resource_updates],
               [call |-> "flush_scene_builder", updates |-> <<>>] >>
       ELSE <<>>

\* add_resources, the loop over add_image_resources.
RECURSIVE add_resources_images(_, _)
add_resources_images(registered_images, add_image_resources) ==
    IF add_image_resources = <<>> THEN registered_images
    ELSE add_resources_images(
            MapInsert(registered_images, Head(add_image_resources)[1], Head(add_image_resources)[2]),
            Tail(add_image_resources))

\* add_resources, the loop over add_font_resources. Font inserts a LoadedFont without
\* instances; Instance unwraps the registered font and panics when there is none.
\* r = [fonts, panicked].
RECURSIVE add_resources_fonts(_, _)
add_resources_fonts(r, add_font_resources) ==
    IF add_font_resources = <<>> \/ r.panicked THEN r
    ELSE LET font_id == Head(add_font_resources)[1]
             m == Head(add_font_resources)[2]
             next ==
                 IF m.msg = "Font"
                 THEN [r EXCEPT !.fonts = MapInsert(@, font_id,
                          LoadedFontNew(m.font.font_key, m.font.font_bytes, m.font.font_index))]
                 ELSE IF font_id \notin DOMAIN r.fonts
                 THEN [r EXCEPT !.panicked = TRUE]
                 ELSE [r EXCEPT !.fonts[font_id].font_instances = MapInsert(@, m.size, m.key)]
         IN add_resources_fonts(next, Tail(add_font_resources))

\* AppResources::add_fonts_and_images. The display list is scanned, the scans extend
\* the two last_frame maps, the add messages are built from the scans and applied.
\* font_order, size_order and image_order are the orders in which the scans are iterated.
AddFontsAndImages(display_list, font_order, size_order, image_order, env) ==
    LET scanned_fonts == scan_ui_description_for_font_keys(css_ids_to_font_ids, display_list)
        scanned_images == scan_ui_description_for_image_keys(css_ids_to_image_ids, display_list)
        f == build_add_font_resource_updates(render_api, currently_registered_fonts,
                                             font_sources, font_order, size_order, env)
        i == build_add_image_resource_updates(f.render_api, currently_registered_images,
                                              image_sources, image_order, env)
        applied == add_resources_fonts([fonts |-> currently_registered_fonts, panicked |-> FALSE],
                                       f.resource_updates)
    IN /\ ~panicked
       /\ last_frame_font_keys' = MapExtend(last_frame_font_keys, scanned_fonts)
       /\ last_frame_image_keys' = last_frame_image_keys \cup scanned_images
       /\ render_api' = i.render_api
       /\ api_calls' = add_resources_calls(f.resource_updates, i.resource_updates)
       /\ currently_registered_images' =
              add_resources_images(currently_registered_images, i.resource_updates)
       /\ currently_registered_fonts' = applied.fonts
       /\ panicked' = applied.panicked
       /\ UNCHANGED <<css_ids_to_image_ids, css_ids_to_font_ids, image_sources, font_sources,
                      text_cache, TEXT_ID_COUNTER, IMAGE_ID_COUNTER, FONT_ID_COUNTER>>

\* ------------------------------------------------------------ delete phase

\* The filter and map over loaded_font.font_instances in build_delete_font_resource_updates:
\* the filter indexes last_frame_font_keys[font_id] for every instance, which panics when
\* the font has no entry there, and keeps the instances whose size the entry contains.
\* r = [resource_updates, panicked].
RECURSIVE build_delete_font_instances(_, _, _, _, _)
build_delete_font_instances(r, last_frame, font_id, loaded_font, sizes) ==
    IF sizes = <<>> \/ r.panicked THEN r
    ELSE LET au == Head(sizes)
             next ==
                 IF font_id \notin DOMAIN last_frame
                 THEN [r EXCEPT !.panicked = TRUE]
                 ELSE IF au \in last_frame[font_id]
                 THEN [r EXCEPT !.resource_updates =
                          Append(@, <<font_id,
                                      DeleteFontMsgInstance(loaded_font.font_instances[au], au)>>)]
                 ELSE r
         IN build_delete_font_instances(next, last_frame, font_id, loaded_font, Tail(sizes))

\* A loop body that deletes the font whether or not it is referenced or has instances.
build_delete_font_step_font_always(r, last_frame, font_id, loaded_font, sizes) ==
    LET instances == build_delete_font_instances(r, last_frame, font_id, loaded_font, sizes)
    IN IF instances.panicked THEN instances
       ELSE [instances EXCEPT !.resource_updates =
                Append(@, <<font_id, DeleteFontMsgFont(loaded_font.font_key)>>)]

\* The body of the loop of build_delete_font_resource_updates for one registered font.
build_delete_font_step(r, last_frame, font_id, loaded_font, sizes) ==
    LET instances == build_delete_font_instances(r, last_frame, font_id, loaded_font, sizes)
    IN IF instances.panicked THEN instances
       ELSE IF font_id \notin DOMAIN last_frame \/ DOMAIN loaded_font.font_instances = {}
       THEN [instances EXCEPT !.resource_updates =
                Append(@, <<font_id, DeleteFontMsgFont(loaded_font.font_key)>>)]
       ELSE instances

\* build_delete_font_resource_updates: the loop over currently_registered_fonts in the
\* order font_order, the instances of each font in the order instance_order gives it.
RECURSIVE build_delete_font_loop(_, _, _, _, _)
build_delete_font_loop(r, registered_fonts, last_frame, font_order, instance_order) ==
    IF font_order = <<>> \/ r.panicked THEN r
    ELSE build_delete_font_loop(
            build_delete_font_step(r, last_frame, Head(font_order),
                                   registered_fonts[Head(font_order)],
                                   instance_order[Head(font_order)]),
            registered_fonts, last_frame, Tail(font_order), instance_order)

build_delete_font_resource_updates(registered_fonts, last_frame, font_order, instance_order) ==
    build_delete_font_loop([resource_updates |-> <<>>, panicked |-> FALSE],
                           registered_fonts, last_frame, font_order, instance_order)

\* build_delete_image_resource_updates: the registered images that are not in
\* last_frame_image_keys, in the order image_order of the registered images.
RECURSIVE build_delete_image_resource_updates(_, _, _)
build_delete_image_resource_updates(registered_images, last_frame, image_order) ==
    IF image_order = <<>> THEN <<>>
    ELSE LET id == Head(image_order)
             rest == build_delete_image_resource_updates(registered_images, last_frame,
                                                         Tail(image_order))
         IN IF id \notin last_frame
            THEN << <<id, [key |-> registered_images[id].key]>> >> \o rest
            ELSE rest

\* A delete_resources that submits the font updates and not the image updates.
delete_resources_calls_fonts_only(delete_font_resources, delete_image_resources) ==
    LET merged_resource_updates == MapUpdates(delete_font_resources, "DeleteFont")
    IN IF merged_resource_updates # <<>>
       THEN << [call |-> "update_resources", updates |-> merged_resource_updates] >>
       ELSE <<>>

\* delete_resources, the calls: one update_resources with the font updates followed by
\* the image updates, no flush; nothing when there is no update.
delete_resources_calls(delete_font_resources, delete_image_resources) ==
    LET merged_resource_updates ==
            MapUpdates(delete_font_resources, "DeleteFont")
                \o MapUpdates(delete_image_resources, "DeleteImage")
    IN IF merged_resource_updates # <<>>
       THEN << [call |-> "update_resources", updates |-> merged_resource_updates] >>
       ELSE <<>>

\* delete_resources, the loop over delete_image_resources.
RECURSIVE delete_resources_images(_, _)
delete_resources_images(registered_images, delete_image_resources) ==
    IF delete_image_resources = <<>> THEN registered_images
    ELSE delete_resources_images(MapRemove(registered_images, Head(delete_image_resources)[1]),
                                 Tail(delete_image_resources))

\* delete_resources, the loop over delete_font_resources. Font removes the registered
\* font; Instance unwraps the registered font, panicking when there is none, and
\* removes the size from its instances (LoadedFont::delete_font_instance).
RECURSIVE delete_resources_fonts(_, _)
delete_resources_fonts(r, delete_font_resources) ==
    IF delete_font_resources = <<>> \/ r.panicked THEN r
    ELSE LET font_id == Head(delete_font_resources)[1]
             m == Head(delete_font_resources)[2]
             next ==
                 IF m.msg = "Font"
                 THEN [r EXCEPT !.fonts = MapRemove(@, font_id)]
                 ELSE IF font_id \notin DOMAIN r.fonts
                 THEN [r EXCEPT !.panicked = TRUE]
                 ELSE [r EXCEPT !.fonts[font_id].font_instances = MapRemove(@, m.size)]
         IN delete_resources_fonts(next, Tail(delete_font_resources))

\* The font_instances maps of the registered fonts, as sets of sizes.
InstanceSizes(registered_fonts) ==
    [id \in DOMAIN registered_fonts |-> DOMAIN registered_fonts[id].font_instances]

\* A garbage_collect_fonts_and_images that does not clear the two last_frame maps.
GarbageCollectFontsAndImagesTrackerKept(font_order, instance_order, image_order) ==
    LET f == build_delete_font_resource_updates(currently_registered_fonts,
                                                last_frame_font_keys, font_order, instance_order)
        i == build_delete_image_resource_updates(currently_registered_images,
                                                 last_frame_image_keys, image_order)
        applied == delete_resources_fonts(
                       [fonts |-> currently_registered_fonts, panicked |-> FALSE],
                       f.resource_updates)
    IN /\ ~panicked
       /\ IF f.panicked
          THEN /\ panicked' = TRUE
               /\ api_calls' = <<>>
               /\ UNCHANGED <<currently_registered_images, currently_registered_fonts,
                              last_frame_image_keys, last_frame_font_keys>>
          ELSE /\ api_calls' = delete_resources_calls(f.resource_updates, i)
               /\ currently_registered_images' =
                      delete_resources_images(currently_registered_images, i)
               /\ currently_registered_fonts' = applied.fonts
               /\ panicked' = applied.panicked
               /\ IF applied.panicked
                  THEN UNCHANGED <<last_frame_image_keys, last_frame_font_keys>>
                  ELSE UNCHANGED <<last_frame_image_keys, last_frame_font_keys>>
       /\ UNCHANGED <<css_ids_to_image_ids, css_ids_to_font_ids, image_sources, font_sources,
                      text_cache, TEXT_ID_COUNTER, IMAGE_ID_COUNTER, FONT_ID_COUNTER,
                      render_api>>

\* AppResources::garbage_collect_fonts_and_images. The delete messages are built from
\* the registered resources and the two last_frame maps and applied, then both maps
\* are cleared. A panic while the font messages are built leaves the state as it was.
\* font_order, instance_order and image_order are the orders in which the registered
\* fonts, their instances and the registered images are iterated.
GarbageCollectFontsAndImages(font_order, instance_order, image_order) ==
    LET f == build_delete_font_resource_updates(currently_registered_fonts,
                                                last_frame_font_keys, font_order, instance_order)
        i == build_delete_image_resource_updates(currently_registered_images,
                                                 last_frame_image_keys, image_order)
        applied == delete_resources_fonts(
                       [fonts |-> currently_registered_fonts, panicked |-> FALSE],
                       f.resource_updates)
    IN /\ ~panicked
       /\ IF f.panicked
          THEN /\ panicked' = TRUE
               /\ api_calls' = <<>>
               /\ UNCHANGED <<currently_registered_images, currently_registered_fonts,
                              last_frame_image_keys, last_frame_font_keys>>
          ELSE /\ api_calls' = delete_resources_calls(f.resource_updates, i)
               /\ currently_registered_images' =
                      delete_resources_images(currently_registered_images, i)
               /\ currently_registered_fonts' = applied.fonts
               /\ panicked' = applied.panicked
               /\ IF applied.panicked
                  THEN UNCHANGED <<last_frame_image_keys, last_frame_font_keys>>
                  ELSE /\ last_frame_font_keys' = EmptyMap
                       /\ last_frame_image_keys' = {}
       /\ UNCHANGED <<css_ids_to_image_ids, css_ids_to_font_ids, image_sources, font_sources,
                      text_cache, TEXT_ID_COUNTER, IMAGE_ID_COUNTER, FONT_ID_COUNTER,
                      render_api>>

\* ----------------------------------------------------------- specification

\* AppResources::new: every map empty. The id counters are process-wide statics at 0,
\* the render API has handed out no key.
Init ==
    /\ css_ids_to_image_ids = EmptyMap
    /\ css_ids_to_font_ids = EmptyMap
    /\ image_sources = EmptyMap
    /\ font_sources = EmptyMap
    /\ currently_registered_images = EmptyMap
    /\ currently_registered_fonts = EmptyMap
    /\ last_frame_image_keys = {}
    /\ last_frame_font_keys = EmptyMap
    /\ text_cache = EmptyMap
    /\ TEXT_ID_COUNTER = 0
    /\ IMAGE_ID_COUNTER = 0
    /\ FONT_ID_COUNTER = 0
    /\ render_api = [font_key |-> 0, font_instance_key |-> 0, image_key |-> 0]
    /\ api_calls = <<>>
    /\ panicked = FALSE
    /\ trace = <<>>

\* The display lists of Spec: at most MaxNodes nodes, the text nodes with a font of
\* CssFontIds at a size of Sizes, the image nodes with an ImageId minted so far.
Frames ==
    {d \in {DisplayList(t, i, {}) :
                t \in SUBSET (CssFontIds \X Sizes), i \in SUBSET ImageIds} :
        Cardinality(d.texts) + Cardinality(d.images) <= MaxNodes}

\* The sources whose load can fail.
FallibleSources ==
    {ImageSourceFile, FontSourceFile} \cup {FontSourceSystem(c) : c \in CssFontIds}

\* The sources the add phase would load for these scans: only their presence in env
\* matters to the call.
SourcesToLoad(scanned_fonts, scanned_images) ==
    {FontSourceSystem(id[2]) : id \in {x \in DOMAIN scanned_fonts : x[1] = "Unresolved"}}
       \cup {font_sources[id[2]] :
                id \in {x \in DOMAIN scanned_fonts :
                            x[1] = "Resolved" /\ x[2] \in DOMAIN font_sources}}
       \cup {image_sources[id] : id \in scanned_images \cap DOMAIN image_sources}

\* add_fonts_and_images(display_list), for every outcome of the loads and every
\* iteration order of the scans.
AddPhaseOf(display_list) ==
    LET scanned_fonts == scan_ui_description_for_font_keys(css_ids_to_font_ids, display_list)
        scanned_images == scan_ui_description_for_image_keys(css_ids_to_image_ids, display_list)
    IN \E env \in SUBSET (FallibleSources \cap SourcesToLoad(scanned_fonts, scanned_images)) :
       \E font_order \in Orders(DOMAIN scanned_fonts) :
       \E size_order \in OrdersOf(scanned_fonts) :
       \E image_order \in Orders(scanned_images) :
          AddFontsAndImages(display_list, font_order, size_order, image_order, env)

\* garbage_collect_fonts_and_images(), for every iteration order of the registered
\* fonts, font instances and images.
DeletePhaseOf ==
    \E font_order \in Orders(DOMAIN currently_registered_fonts) :
    \E instance_order \in OrdersOf(InstanceSizes(currently_registered_fonts)) :
    \E image_order \in Orders(DOMAIN currently_registered_images) :
       GarbageCollectFontsAndImages(font_order, instance_order, image_order)

AddPhase ==
    /\ \E display_list \in Frames :
          /\ \A id \in display_list.images : id < IMAGE_ID_COUNTER
          /\ AddPhaseOf(display_list)
    /\ render_api'.font_key <= MaxFontKeys
    /\ render_api'.font_instance_key <= MaxFontInstanceKeys
    /\ render_api'.image_key <= MaxImageKeys
    /\ UNCHANGED trace

DeletePhase == DeletePhaseOf /\ UNCHANGED trace

NewImageId == ImageIdNew /\ UNCHANGED trace

SetImageSource ==
    /\ \E id \in 0..(IMAGE_ID_COUNTER - 1), src \in ImageSources : AddImage(id, src)
    /\ UNCHANGED trace

RemoveImageSource ==
    /\ \E id \in DOMAIN image_sources : DeleteImage(id)
    /\ UNCHANGED trace

Next == AddPhase \/ DeletePhase \/ NewImageId \/ SetImageSource \/ RemoveImageSource

Spec == Init /\ [][Next]_vars

\* ------------------------------------------------- cycles, with their trace

\* The frames of test_font_gc: frame 1 (and 3) has three paragraphs with the font
\* families of the test's css, frame 2 has one paragraph with the default family.
display_list_frame_1 ==
    DisplayList({<<"Helvetica", 10>>, <<"Arial", 10>>, <<"Times New Roman", 10>>}, {}, {})
display_list_frame_2 == DisplayList({<<"sans-serif", 10>>}, {}, {})

\* Two frames that show image 0 and use Helvetica at two sizes, then at one.
display_list_two_sizes == DisplayList({<<"Helvetica", 10>>, <<"Helvetica", 12>>}, {0}, {})
display_list_one_size == DisplayList({<<"Helvetica", 10>>}, {0}, {})

\* The system fonts of the test are installed: the loads of its frames succeed.
TestFrames == {display_list_frame_1, display_list_frame_2}
\* The loads of the other frames either all succeed or all fail.
OtherFrames == {display_list_two_sizes, display_list_one_size}

\* What the trace keeps of one reconciler call: the references the call worked with,
\* the loads it made, its render API calls and the registered resources after it.
TraceEntry(op, fonts_referenced, images_referenced, loads) ==
    [op |-> op,
     font_keys |-> fonts_referenced,
     image_keys |-> images_referenced,
     load_log |-> loads,
     api_calls |-> api_calls',
     render_api |-> render_api',
     fonts |-> currently_registered_fonts',
     images |-> currently_registered_images',
     panicked |-> panicked']

\* SpecCycles follows one iteration order per map, the same for equal contents, as a
\* hasher without a random seed gives; Spec takes every order.
AnOrder(S) == CHOOSE s \in Orders(S) : TRUE
AnOrderOf(sets) == [k \in DOMAIN sets |-> AnOrder(sets[k])]

\* add_fonts_and_images(display_list) with the sources of env loading, recorded.
CycleAddOf(display_list, env) ==
    LET scanned_fonts == scan_ui_description_for_font_keys(css_ids_to_font_ids, display_list)
        scanned_images == scan_ui_description_for_image_keys(css_ids_to_image_ids, display_list)
        font_order == AnOrder(DOMAIN scanned_fonts)
        size_order == AnOrderOf(scanned_fonts)
        image_order == AnOrder(scanned_images)
    IN    /\ AddFontsAndImages(display_list, font_order, size_order, image_order, env)
          /\ LET f == build_add_font_resource_updates(render_api, currently_registered_fonts,
                                                      font_sources, font_order, size_order, env)
                 i == build_add_image_resource_updates(f.render_api, currently_registered_images,
                                                       image_sources, image_order, env)
             IN trace' = Append(trace, TraceEntry("add", scanned_fonts, scanned_images,
                                                  f.load_log \cup i.load_log))

CycleAdd ==
    /\ Len(trace) < MaxTrace
    /\ \/ \E display_list \in TestFrames :
             CycleAddOf(display_list, {FontSourceSystem(t[1]) : t \in display_list.texts})
       \/ \E display_list \in OtherFrames :
             \E env \in {{}, {ImageSourceFile} \cup
                             {FontSourceSystem(t[1]) : t \in display_list.texts}} :
                CycleAddOf(display_list, env)

CycleCollect ==
    /\ Len(trace) < MaxTrace
    /\ GarbageCollectFontsAndImages(AnOrder(DOMAIN currently_registered_fonts),
                                    AnOrderOf(InstanceSizes(currently_registered_fonts)),
                                    AnOrder(DOMAIN currently_registered_images))
    /\ trace' = Append(trace, TraceEntry("collect", last_frame_font_keys,
                                         last_frame_image_keys, {}))

\* The application has minted ImageId 0 and set its source to a file with add_image
\* before the first frame.
InitCycles ==
    /\ css_ids_to_image_ids = EmptyMap
    /\ css_ids_to_font_ids = EmptyMap
    /\ image_sources = MapInsert(EmptyMap, 0, ImageSourceFile)
    /\ font_sources = EmptyMap
    /\ currently_registered_images = EmptyMap
    /\ currently_registered_fonts = EmptyMap
    /\ last_frame_image_keys = {}
    /\ last_frame_font_keys = EmptyMap
    /\ text_cache = EmptyMap
    /\ TEXT_ID_COUNTER = 0
    /\ IMAGE_ID_COUNTER = 1
    /\ FONT_ID_COUNTER = 0
    /\ render_api = [font_key |-> 0, font_instance_key |-> 0, image_key |-> 0]
    /\ api_calls = <<>>
    /\ panicked = FALSE
    /\ trace = <<>>

NextCycles == CycleAdd \/ CycleCollect

SpecCycles == InitCycles /\ [][NextCycles]_vars

\* --------------------------------------- ids and aliases, with their returns

\* The css ids the application registers.
CssImageIds == {"cat", "dog"}
RegisteredCssFontIds == {"Helvetica", "Arial"}

\* What the trace keeps of a call that returns an id: the call, its argument and the
\* value it returned (<<id>>, or <<>> for None).
Call(op, arg, ret) == [op |-> op, arg |-> arg, ret |-> ret]

CallAddCssImageId ==
    /\ Len(trace) < MaxTrace
    /\ \E css_id \in CssImageIds :
          /\ AddCssImageId(css_id)
          /\ trace' = Append(trace, Call("add_css_image_id", css_id,
                                         <<css_ids_to_image_ids'[css_id]>>))

CallDeleteCssImageId ==
    /\ Len(trace) < MaxTrace
    /\ \E css_id \in CssImageIds :
          /\ DeleteCssImageId(css_id)
          /\ trace' = Append(trace, Call("delete_css_image_id", css_id,
                                         MapGet(css_ids_to_image_ids, css_id)))

CallAddCssFontId ==
    /\ Len(trace) < MaxTrace
    /\ \E css_id \in RegisteredCssFontIds :
          /\ AddCssFontId(css_id)
          /\ trace' = Append(trace, Call("add_css_font_id", css_id,
                                         <<css_ids_to_font_ids'[css_id]>>))

CallDeleteCssFontId ==
    /\ Len(trace) < MaxTrace
    /\ \E css_id \in RegisteredCssFontIds :
          /\ DeleteCssFontId(css_id)
          /\ trace' = Append(trace, Call("delete_css_font_id", css_id,
                                         MapGet(css_ids_to_font_ids, css_id)))

CallImageIdNew ==
    /\ Len(trace) < MaxTrace
    /\ ImageIdNew
    /\ trace' = Append(trace, Call("ImageId::new", "", <<IMAGE_ID_COUNTER>>))

CallFontIdNew ==
    /\ Len(trace) < MaxTrace
    /\ FontIdNew
    /\ trace' = Append(trace, Call("FontId::new", "", <<FONT_ID_COUNTER>>))

CallAddText ==
    /\ Len(trace) < MaxTrace
    /\ \E text \in Texts :
          /\ AddText(text)
          /\ trace' = Append(trace, Call("add_text", text, <<TextIdNew>>))

CallDeleteText ==
    /\ \E id \in DOMAIN text_cache : DeleteText(id)
    /\ UNCHANGED trace

CallClearAllTexts == ClearAllTexts /\ UNCHANGED trace

NextIds ==
    \/ CallAddCssImageId \/ CallDeleteCssImageId
    \/ CallAddCssFontId \/ CallDeleteCssFontId
    \/ CallImageIdNew \/ CallFontIdNew
    \/ CallAddText \/ CallDeleteText \/ CallClearAllTexts

SpecIds == Init /\ [][NextIds]_vars

\* ----------------------------------------- the add phase on a given font map

\* SpecBuild applies the add phase to a font map that is given rather than scanned:
\* build_add_font_resource_updates and add_resources, as add_fonts_and_images calls
\* them. The map may give a font an empty set of sizes, which a scan never does.
BuildFontIds == {Resolved(0), Resolved(1), Unresolved("Helvetica")}
BuildFontsInDom ==
    UNION {[ids -> SUBSET Sizes] : ids \in SUBSET BuildFontIds \ {{}}}

\* The application has minted the FontIds 0 and 1 with FontId::new() and set a source
\* for none, one or both of them; it has registered no alias.
BuildFontSources ==
    {EmptyMap,
     MapInsert(EmptyMap, 0, FontSourceEmbedded),
     MapInsert(EmptyMap, 1, FontSourceFile),
     MapInsert(MapInsert(EmptyMap, 0, FontSourceFile), 1, FontSourceEmbedded)}

\* Either no font is registered, or Helvetica is, at size 10, from an earlier frame.
BuildRegisteredFonts ==
    {[fonts |-> EmptyMap,
      render_api |-> [font_key |-> 0, font_instance_key |-> 0, image_key |-> 0]],
     [fonts |-> MapInsert(EmptyMap, Unresolved("Helvetica"),
                          [LoadedFontNew(0, FontSourceSystem("Helvetica"), 0)
                              EXCEPT !.font_instances = MapInsert(EmptyMap, 10, 0)]),
      render_api |-> [font_key |-> 1, font_instance_key |-> 1, image_key |-> 0]]}

BuildEnvs == {{}, {FontSourceFile, FontSourceSystem("Helvetica")}}

\* The trace of SpecBuild: the font map given and the state before the call, then the
\* call with its loads and the state after it.
InitBuild ==
    /\ css_ids_to_image_ids = EmptyMap
    /\ css_ids_to_font_ids = EmptyMap
    /\ image_sources = EmptyMap
    /\ font_sources \in BuildFontSources
    /\ currently_registered_images = EmptyMap
    /\ \E registered \in BuildRegisteredFonts :
          /\ currently_registered_fonts = registered.fonts
          /\ render_api = registered.render_api
    /\ last_frame_image_keys = {}
    /\ last_frame_font_keys = EmptyMap
    /\ text_cache = EmptyMap
    /\ TEXT_ID_COUNTER = 0
    /\ IMAGE_ID_COUNTER = 0
    /\ FONT_ID_COUNTER = 2
    /\ api_calls = <<>>
    /\ panicked = FALSE
    /\ \E fonts_in_dom \in BuildFontsInDom :
          trace = << [op |-> "given", font_keys |-> fonts_in_dom,
                      fonts |-> currently_registered_fonts, render_api |-> render_api] >>

\* add_fonts_and_images from the point where the scans are done, with the given font
\* map and no image, in some iteration order and with the loads of env succeeding.
BuildAdd ==
    /\ Len(trace) = 1
    /\ ~panicked
    /\ LET font_keys == trace[1].font_keys
       IN \E env \in BuildEnvs :
          \E font_order \in Orders(DOMAIN font_keys) :
          \E size_order \in OrdersOf(font_keys) :
             LET f == build_add_font_resource_updates(render_api, currently_registered_fonts,
                                                      font_sources, font_order, size_order, env)
                 i == build_add_image_resource_updates(f.render_api, currently_registered_images,
                                                       image_sources, <<>>, env)
                 applied == add_resources_fonts(
                                [fonts |-> currently_registered_fonts, panicked |-> FALSE],
                                f.resource_updates)
             IN /\ last_frame_font_keys' = MapExtend(last_frame_font_keys, font_keys)
                /\ last_frame_image_keys' = last_frame_image_keys
                /\ render_api' = i.render_api
                /\ api_calls' = add_resources_calls(f.resource_updates, i.resource_updates)
                /\ currently_registered_images' =
                       add_resources_images(currently_registered_images, i.resource_updates)
                /\ currently_registered_fonts' = applied.fonts
                /\ panicked' = applied.panicked
                /\ trace' = Append(trace, [op |-> "add", font_keys |-> font_keys, env |-> env,
                                           load_log |-> f.load_log, api_calls |-> api_calls',
                                           render_api |-> render_api',
                                           fonts |-> currently_registered_fonts'])
    /\ UNCHANGED <<css_ids_to_image_ids, css_ids_to_font_ids, image_sources, font_sources,
                   text_cache, TEXT_ID_COUNTER, IMAGE_ID_COUNTER, FONT_ID_COUNTER>>

NextBuild == BuildAdd

SpecBuild == InitBuild /\ [][NextBuild]_vars

\* ---------------------------------------------------------- the text cache

\* In SpecTexts the trace is the log of the add_text calls, each with the text it was
\* given and the TextId it returned. delete_text is called with any id, minted or not.
TextAdd ==
    \E text \in CachedTexts :
       /\ AddText(text)
       /\ TEXT_ID_COUNTER' <= MaxTextIds
       /\ trace' = Append(trace, Call("add_text", text, <<TextIdNew>>))

TextDelete ==
    /\ \E id \in 0..MaxTextIds : DeleteText(id)
    /\ UNCHANGED trace

TextClear == ClearAllTexts /\ UNCHANGED trace

NextTexts == TextAdd \/ TextDelete \/ TextClear

SpecTexts == Init /\ [][NextTexts]_vars

\* ------------------------------------------ the text cache and the two phases

\* SpecTextFrames: an application that registers the image alias "cat", sets the
\* source of its ImageId, adds and deletes texts, and renders one frame, text in
\* Helvetica over the background "cat", again and again. The trace is not used.
TextFrame == DisplayList({<<"Helvetica", 10>>}, {}, {"cat"})
TextFrameEnvs == {{}, {ImageSourceFile, FontSourceSystem("Helvetica")}}

TextFrameAddCssImageId ==
    /\ AddCssImageId("cat")
    /\ UNCHANGED trace

TextFrameAddImage ==
    /\ \E image_id \in 0..(IMAGE_ID_COUNTER - 1) : AddImage(image_id, ImageSourceFile)
    /\ UNCHANGED trace

TextFrameAddText ==
    /\ \E text \in CachedTexts : AddText(text)
    /\ TEXT_ID_COUNTER' <= MaxFrameTextIds
    /\ UNCHANGED trace

TextFrameDeleteText ==
    /\ \E id \in 0..MaxFrameTextIds : DeleteText(id)
    /\ UNCHANGED trace

TextFrameClearAllTexts == ClearAllTexts /\ UNCHANGED trace

TextFrameAddPhase ==
    /\ \E env \in TextFrameEnvs :
          LET scanned_fonts == scan_ui_description_for_font_keys(css_ids_to_font_ids, TextFrame)
              scanned_images == scan_ui_description_for_image_keys(css_ids_to_image_ids, TextFrame)
          IN AddFontsAndImages(TextFrame, AnOrder(DOMAIN scanned_fonts),
                               AnOrderOf(scanned_fonts), AnOrder(scanned_images), env)
    /\ render_api'.font_key <= MaxFontKeys
    /\ render_api'.font_instance_key <= MaxFontInstanceKeys
    /\ render_api'.image_key <= MaxImageKeys
    /\ UNCHANGED trace

TextFrameCollect ==
    /\ GarbageCollectFontsAndImages(AnOrder(DOMAIN currently_registered_fonts),
                                    AnOrderOf(InstanceSizes(currently_registered_fonts)),
                                    AnOrder(DOMAIN currently_registered_images))
    /\ UNCHANGED trace

NextTextFrames ==
    \/ TextFrameAddCssImageId \/ TextFrameAddImage
    \/ TextFrameAddText \/ TextFrameDeleteText \/ TextFrameClearAllTexts
    \/ TextFrameAddPhase \/ TextFrameCollect

SpecTextFrames == Init /\ [][NextTextFrames]_vars

\* ------------------------------------- sources set anew, and the two phases

\* SpecRepoint: an application that registers the font alias "Arial" and the image
\* alias "cat", sets, replaces and deletes the sources of their ids, and renders one
\* frame, text in Arial over the background "cat", again and again. Arial is not a
\* system font here. The trace holds the last phase call and the sources it ran with.
RepointFrame == DisplayList({<<"Arial", 10>>}, {}, {"cat"})
RepointFontSources == {FontSourceEmbedded, FontSourceFile}
RepointEnvs == {{}, {ImageSourceFile, FontSourceFile}}

RepointScannedFonts == scan_ui_description_for_font_keys(css_ids_to_font_ids, RepointFrame)
RepointScannedImages == scan_ui_description_for_image_keys(css_ids_to_image_ids, RepointFrame)

RepointAddCssFontId ==
    /\ AddCssFontId("Arial")
    /\ UNCHANGED trace

RepointAddCssImageId ==
    /\ AddCssImageId("cat")
    /\ UNCHANGED trace

RepointAddFont ==
    /\ \E font_id \in 0..(FONT_ID_COUNTER - 1), font_source \in RepointFontSources :
          AddFont(font_id, font_source)
    /\ UNCHANGED trace

RepointDeleteFont ==
    /\ \E font_id \in 0..(FONT_ID_COUNTER - 1) : DeleteFont(font_id)
    /\ UNCHANGED trace

RepointAddImage ==
    /\ \E image_id \in 0..(IMAGE_ID_COUNTER - 1), image_source \in ImageSources :
          AddImage(image_id, image_source)
    /\ UNCHANGED trace

RepointDeleteImage ==
    /\ \E image_id \in 0..(IMAGE_ID_COUNTER - 1) : DeleteImage(image_id)
    /\ UNCHANGED trace

RepointAddPhase ==
    /\ \E env \in RepointEnvs :
          AddFontsAndImages(RepointFrame, AnOrder(DOMAIN RepointScannedFonts),
                            AnOrderOf(RepointScannedFonts), AnOrder(RepointScannedImages), env)
    /\ render_api'.font_key <= MaxFontKeys
    /\ render_api'.font_instance_key <= MaxFontInstanceKeys
    /\ render_api'.image_key <= MaxImageKeys
    /\ trace' = <<[op |-> "add", image_sources |-> image_sources,
                   font_sources |-> font_sources]>>

RepointCollect ==
    /\ GarbageCollectFontsAndImages(AnOrder(DOMAIN currently_registered_fonts),
                                    AnOrderOf(InstanceSizes(currently_registered_fonts)),
                                    AnOrder(DOMAIN currently_registered_images))
    /\ trace' = <<[op |-> "collect", image_sources |-> image_sources,
                   font_sources |-> font_sources]>>

NextRepoint ==
    \/ RepointAddCssFontId \/ RepointAddCssImageId
    \/ RepointAddFont \/ RepointDeleteFont
    \/ RepointAddImage \/ RepointDeleteImage
    \/ RepointAddPhase \/ RepointCollect

SpecRepoint == Init /\ [][NextRepoint]_vars

\* ------------------------------- registry, source store and the two phases

\* The frame of SpecStore: text in two font families over a background image, all
\* named by css ids.
StoreFrames ==
    {DisplayList({<<"Helvetica", 10>>, <<"Times", 10>>}, {}, {"cat"})}

\* The font family an application registers in SpecStore; the frame's own families
\* are not registered and are looked up as system fonts.
StoreCssFontIds == {"Arial"}

\* In SpecStore either every load fails or every load succeeds.
StoreEnvs ==
    {{}, {ImageSourceFile, FontSourceFile,
          FontSourceSystem("Helvetica"), FontSourceSystem("Times")}}

\* In SpecStore the trace holds the call just made when it was a delete_css_image_id or
\* a delete_css_font_id, with the value it returned, and is empty after any other call.
StoreAddCssImageId ==
    \E css_id \in CssImageIds :
       /\ AddCssImageId(css_id)
       /\ IMAGE_ID_COUNTER' <= MaxIds
       /\ trace' = <<>>

StoreDeleteCssImageId ==
    \E css_id \in CssImageIds :
       /\ DeleteCssImageId(css_id)
       /\ trace' = <<Call("delete_css_image_id", css_id, MapGet(css_ids_to_image_ids, css_id))>>

StoreAddCssFontId ==
    \E css_id \in StoreCssFontIds :
       /\ AddCssFontId(css_id)
       /\ FONT_ID_COUNTER' <= MaxFontIds
       /\ trace' = <<>>

StoreDeleteCssFontId ==
    \E css_id \in StoreCssFontIds :
       /\ DeleteCssFontId(css_id)
       /\ trace' = <<Call("delete_css_font_id", css_id, MapGet(css_ids_to_font_ids, css_id))>>

StoreAddImage ==
    /\ \E image_id \in 0..(IMAGE_ID_COUNTER - 1), image_source \in {ImageSourceFile} :
          AddImage(image_id, image_source)
    /\ trace' = <<>>

StoreDeleteImage ==
    /\ \E image_id \in 0..(IMAGE_ID_COUNTER - 1) : DeleteImage(image_id)
    /\ trace' = <<>>

StoreAddFont ==
    /\ \E font_id \in 0..(FONT_ID_COUNTER - 1), font_source \in {FontSourceFile} :
          AddFont(font_id, font_source)
    /\ trace' = <<>>

StoreDeleteFont ==
    /\ \E font_id \in 0..(FONT_ID_COUNTER - 1) : DeleteFont(font_id)
    /\ trace' = <<>>

StoreAddPhase ==
    /\ \E display_list \in StoreFrames, env \in StoreEnvs :
          LET scanned_fonts ==
                  scan_ui_description_for_font_keys(css_ids_to_font_ids, display_list)
              scanned_images ==
                  scan_ui_description_for_image_keys(css_ids_to_image_ids, display_list)
          IN AddFontsAndImages(display_list, AnOrder(DOMAIN scanned_fonts),
                               AnOrderOf(scanned_fonts), AnOrder(scanned_images), env)
    /\ render_api'.font_key <= MaxFontKeys
    /\ render_api'.font_instance_key <= MaxFontInstanceKeys
    /\ render_api'.image_key <= MaxImageKeys
    /\ trace' = <<>>

StoreCollect ==
    /\ GarbageCollectFontsAndImages(AnOrder(DOMAIN currently_registered_fonts),
                                    AnOrderOf(InstanceSizes(currently_registered_fonts)),
                                    AnOrder(DOMAIN currently_registered_images))
    /\ trace' = <<>>

NextStore ==
    \/ StoreAddCssImageId \/ StoreDeleteCssImageId
    \/ StoreAddCssFontId \/ StoreDeleteCssFontId
    \/ StoreAddImage \/ StoreDeleteImage
    \/ StoreAddFont \/ StoreDeleteFont
    \/ StoreAddPhase \/ StoreCollect

SpecStore == Init /\ [][NextStore]_vars

\* ------------------------------------------------------------------ claims

\* The resource updates of a call of api_calls, as a set.
UpdatesIn(calls, kind) ==
    UNION {{calls[c].updates[k] : k \in {y \in DOMAIN calls[c].updates :
                                            calls[c].updates[y].update = kind}} :
              c \in DOMAIN calls}

\* The font of a referenced identity loads: its source is present (the system font of
\* the alias for an unresolved identity) and get_bytes succeeds.
FontSourceLoads(im_font_id, env) ==
    IF im_font_id[1] = "Resolved"
    THEN /\ im_font_id[2] \in DOMAIN font_sources
         /\ FontSourceGetBytes(font_sources[im_font_id[2]], env).ok
    ELSE FontSourceGetBytes(FontSourceSystem(im_font_id[2]), env).ok

\* The source of a referenced image is present and loads.
ImageSourceLoads(image_id, env) ==
    /\ image_id \in DOMAIN image_sources
    /\ ImageSourceGetBytes(image_sources[image_id], env).ok

\* The state after add_fonts_and_images(display_list) has every loadable image of the
\* frame registered and an instance key for every size of every loadable font of it.
AddPhaseGuarantee(display_list, env) ==
    LET scanned_fonts == scan_ui_description_for_font_keys(css_ids_to_font_ids, display_list)
        scanned_images == scan_ui_description_for_image_keys(css_ids_to_image_ids, display_list)
    IN /\ ~panicked'
       /\ \A image_id \in scanned_images :
             ImageSourceLoads(image_id, env) => image_id \in DOMAIN currently_registered_images'
       /\ \A im_font_id \in DOMAIN scanned_fonts :
             FontSourceLoads(im_font_id, env) =>
                /\ im_font_id \in DOMAIN currently_registered_fonts'
                /\ scanned_fonts[im_font_id] \subseteq
                       DOMAIN currently_registered_fonts'[im_font_id].font_instances

\* C3: whatever add and collect calls came before, when add_fonts_and_images returns
\* every image of the frame whose source is present and loads is registered, and every
\* (font, size) of the frame whose font source loads has a registered font with an
\* instance key for that size.
C3_AddPhaseGuarantee ==
    [][\A display_list \in Frames :
          LET scanned_fonts ==
                  scan_ui_description_for_font_keys(css_ids_to_font_ids, display_list)
              scanned_images ==
                  scan_ui_description_for_image_keys(css_ids_to_image_ids, display_list)
          IN \A env \in SUBSET (FallibleSources \cap SourcesToLoad(scanned_fonts, scanned_images)) :
             \A font_order \in Orders(DOMAIN scanned_fonts) :
             \A size_order \in OrdersOf(scanned_fonts) :
             \A image_order \in Orders(scanned_images) :
                AddFontsAndImages(display_list, font_order, size_order, image_order, env)
                    => AddPhaseGuarantee(display_list, env)]_vars

\* An add phase has just uploaded image 0 and the instances of a font of the frame:
\* both are registered and in the frame's references.
C3_Witness ==
    /\ Len(api_calls) = 2
    /\ UpdatesIn(api_calls, "AddImage") # {}
    /\ UpdatesIn(api_calls, "AddFontInstance") # {}
    /\ render_api.font_instance_key >= 2
    /\ 0 \in last_frame_image_keys \cap DOMAIN currently_registered_images
    /\ \E id \in DOMAIN last_frame_font_keys \cap DOMAIN currently_registered_fonts :
          /\ last_frame_font_keys[id] # {}
          /\ last_frame_font_keys[id] \subseteq DOMAIN currently_registered_fonts[id].font_instances

\* The sizes the frame reference map holds for a font; none when it has no entry.
ReferencedSizes(last_frame, font_id) ==
    IF font_id \in DOMAIN last_frame THEN last_frame[font_id] ELSE {}

\* The registered (font, size) pairs whose size is not referenced.
UnreferencedInstances(registered_fonts, last_frame) ==
    {p \in UNION {{<<id, au>> : au \in DOMAIN registered_fonts[id].font_instances} :
                     id \in DOMAIN registered_fonts} :
        p[2] \notin ReferencedSizes(last_frame, p[1])}

\* The keys of the updates of one kind in api_calls.
KeysIn(calls, kind) == {u.key : u \in UpdatesIn(calls, kind)}

\* A step of garbage_collect_fonts_and_images, in some iteration order.
CollectStep ==
    \E font_order \in Orders(DOMAIN currently_registered_fonts) :
    \E instance_order \in OrdersOf(InstanceSizes(currently_registered_fonts)) :
    \E image_order \in Orders(DOMAIN currently_registered_images) :
       GarbageCollectFontsAndImages(font_order, instance_order, image_order)

\* C2: garbage_collect_fonts_and_images sends DeleteFontInstance for, and unregisters,
\* exactly the registered (font, size) pairs whose size is not in the frame reference
\* map's set for the font; the referenced pairs stay registered with their key.
C2_DeleteFontInstancesExact ==
    [][CollectStep =>
        LET unreferenced ==
                UnreferencedInstances(currently_registered_fonts, last_frame_font_keys)
        IN /\ KeysIn(api_calls', "DeleteFontInstance") =
                  {currently_registered_fonts[p[1]].font_instances[p[2]] : p \in unreferenced}
           /\ \A id \in DOMAIN currently_registered_fonts :
              \A au \in DOMAIN currently_registered_fonts[id].font_instances :
                 IF <<id, au>> \in unreferenced
                 THEN \/ id \notin DOMAIN currently_registered_fonts'
                      \/ au \notin DOMAIN currently_registered_fonts'[id].font_instances
                 ELSE /\ id \in DOMAIN currently_registered_fonts'
                      /\ au \in DOMAIN currently_registered_fonts'[id].font_instances
                      /\ currently_registered_fonts'[id].font_instances[au] =
                             currently_registered_fonts[id].font_instances[au]]_vars

\* C5: when garbage_collect_fonts_and_images runs and a registered font with instances
\* has no entry in the frame reference map, the phase completes without a panic, sends
\* the delete of every instance of the font and of its font key, and unregisters it.
C5_MissingIdentityIsEmptySet ==
    [][CollectStep =>
        \A id \in DOMAIN currently_registered_fonts :
           (/\ DOMAIN currently_registered_fonts[id].font_instances # {}
            /\ id \notin DOMAIN last_frame_font_keys)
           => /\ ~panicked'
              /\ id \notin DOMAIN currently_registered_fonts'
              /\ currently_registered_fonts[id].font_key \in KeysIn(api_calls', "DeleteFont")
              /\ \A au \in DOMAIN currently_registered_fonts[id].font_instances :
                    currently_registered_fonts[id].font_instances[au]
                        \in KeysIn(api_calls', "DeleteFontInstance")]_vars

\* C9: garbage_collect_fonts_and_images sends DeleteImage for, and unregisters, exactly
\* the registered images that are not in the frame image reference set; the registered
\* images that are in it stay registered with their key.
C9_DeleteImagesExact ==
    [][CollectStep =>
        LET unreferenced == DOMAIN currently_registered_images \ last_frame_image_keys
        IN /\ KeysIn(api_calls', "DeleteImage") =
                  {currently_registered_images[id].key : id \in unreferenced}
           /\ DOMAIN currently_registered_images' =
                  DOMAIN currently_registered_images \ unreferenced
           /\ \A id \in DOMAIN currently_registered_images' :
                 currently_registered_images'[id] = currently_registered_images[id]]_vars

\* A step of add_fonts_and_images, for some frame, load outcome and iteration order.
AddStep == \E display_list \in Frames : AddPhaseOf(display_list)

\* The number of keys the render API handed out in the step: one per add message.
KeysMinted ==
    (render_api'.font_key - render_api.font_key)
        + (render_api'.font_instance_key - render_api.font_instance_key)
        + (render_api'.image_key - render_api.image_key)

\* The registered (font, size) pairs.
Instances(registered_fonts) ==
    UNION {{<<id, au>> : au \in DOMAIN registered_fonts[id].font_instances} :
              id \in DOMAIN registered_fonts}

\* C8: an add phase that has messages calls update_resources once with all of them and
\* flush_scene_builder right after it, and makes no call when it has none; a collect
\* makes at most one update_resources call, with all its messages, and never a flush.
C8_FlushOrdering ==
    [][/\ AddStep =>
            IF KeysMinted > 0
            THEN /\ Len(api_calls') = 2
                 /\ api_calls'[1].call = "update_resources"
                 /\ Len(api_calls'[1].updates) = KeysMinted
                 /\ api_calls'[2].call = "flush_scene_builder"
            ELSE api_calls' = <<>>
       /\ CollectStep =>
            /\ Len(api_calls') <= 1
            /\ \A c \in DOMAIN api_calls' : api_calls'[c].call = "update_resources"
            /\ {currently_registered_fonts[id].font_key :
                   id \in DOMAIN currently_registered_fonts \ DOMAIN currently_registered_fonts'}
                  \subseteq KeysIn(api_calls', "DeleteFont")
            /\ {currently_registered_images[id].key :
                   id \in DOMAIN currently_registered_images \ DOMAIN currently_registered_images'}
                  \subseteq KeysIn(api_calls', "DeleteImage")
            /\ {currently_registered_fonts[p[1]].font_instances[p[2]] :
                   p \in {q \in Instances(currently_registered_fonts) :
                             /\ q[1] \in DOMAIN currently_registered_fonts'
                             /\ q \notin Instances(currently_registered_fonts')}}
                  \subseteq KeysIn(api_calls', "DeleteFontInstance")]_vars

\* An add phase has just submitted a batch of a font, its instance and an image in one
\* update_resources call and flushed after it.
C8_Witness ==
    /\ Len(api_calls) = 2
    /\ api_calls[1].call = "update_resources"
    /\ api_calls[2].call = "flush_scene_builder"
    /\ Len(api_calls[1].updates) = 3
    /\ UpdatesIn(api_calls, "AddFont") # {}

\* ------------------------------------------------ claims over whole cycles

\* The collect calls of the trace, and the collect call before call c (0 when none).
Collects == {c \in DOMAIN trace : trace[c].op = "collect"}
PrevCollect(c) ==
    LET before == {p \in Collects : p < c}
    IN IF before = {} THEN 0 ELSE CHOOSE p \in before : \A q \in before : q <= p

\* The add calls of the cycle that collect call c ends.
AddsOfCycle(c) == {a \in DOMAIN trace : PrevCollect(c) < a /\ a < c}

\* The collect calls that end a cycle: at least one add call came since the collect before.
Cycles == {c \in Collects : AddsOfCycle(c) # {}}

\* Every load the call made succeeded.
AllLoaded(entry) == \A l \in entry.load_log : l[3]

\* C1: when add(R), collect, add(R), collect run in a row as two cycles with the same
\* references R and every load succeeds, the second add and the second collect send
\* nothing and the registered fonts, instances and images after the second cycle are
\* those after the first.
C1_NoChurn ==
    \A i \in DOMAIN trace :
        (/\ i + 3 <= Len(trace)
         /\ i = 1 \/ trace[i - 1].op = "collect"
         /\ trace[i].op = "add" /\ trace[i + 1].op = "collect"
         /\ trace[i + 2].op = "add" /\ trace[i + 3].op = "collect"
         /\ trace[i + 2].font_keys = trace[i].font_keys
         /\ trace[i + 2].image_keys = trace[i].image_keys
         /\ AllLoaded(trace[i]) /\ AllLoaded(trace[i + 2]))
        => /\ trace[i + 2].api_calls = <<>>
           /\ trace[i + 3].api_calls = <<>>
           /\ ~trace[i + 3].panicked
           /\ trace[i + 3].fonts = trace[i + 1].fonts
           /\ trace[i + 3].images = trace[i + 1].images

\* C4: a font that one cycle references with a size, and that is registered when the
\* cycle's collect runs, is not registered after the collect of the next cycle when the
\* next cycle's reference map has no entry for it.
C4_FullEviction ==
    \A c2 \in Cycles :
        LET c1 == PrevCollect(c2)
        IN c1 # 0 =>
             \A font_id \in DOMAIN trace[c1].font_keys :
                (/\ trace[c1].font_keys[font_id] # {}
                 /\ font_id \in DOMAIN trace[c1 - 1].fonts
                 /\ font_id \notin DOMAIN trace[c2].font_keys)
                => /\ ~trace[c2].panicked
                   /\ font_id \notin DOMAIN trace[c2].fonts

\* The trace starts with the calls of test_font_gc up to call n.
ScenarioUpTo(n) ==
    /\ Len(trace) >= n
    /\ \A k \in 1..n :
          /\ trace[k].op = IF k \in {1, 3, 5} THEN "add" ELSE "collect"
          /\ k \in {1, 5} =>
                trace[k].font_keys = scan_ui_description_for_font_keys(EmptyMap, display_list_frame_1)
          /\ k = 3 =>
                trace[k].font_keys = scan_ui_description_for_font_keys(EmptyMap, display_list_frame_2)

\* C6: in the scenario of test_font_gc, 3 fonts with 3 instances are registered after
\* cycle 1, exactly 1 font with 1 instance after the collect of cycle 2, and the add of
\* cycle 3 adds the three fonts of cycle 1 anew.
C6_Scenario ==
    /\ ScenarioUpTo(2) =>
          /\ Cardinality(DOMAIN trace[1].fonts) = 3
          /\ Cardinality(Instances(trace[1].fonts)) = 3
          /\ Cardinality(DOMAIN trace[2].fonts) = 3
          /\ Cardinality(Instances(trace[2].fonts)) = 3
    /\ ScenarioUpTo(4) =>
          /\ Cardinality(DOMAIN trace[4].fonts) = 1
          /\ Cardinality(Instances(trace[4].fonts)) = 1
    /\ ScenarioUpTo(5) =>
          /\ Cardinality(DOMAIN trace[5].fonts) = 3
          /\ Cardinality(UpdatesIn(trace[5].api_calls, "AddFont")) = 3

\* The fonts registered when the cycle that collect call c ends began.
FontsBeforeCycle(c) ==
    IF PrevCollect(c) = 0 THEN EmptyMap ELSE trace[PrevCollect(c)].fonts

\* The fonts the cycle of collect call c references with a size and whose source loads:
\* they were registered when the cycle began or an add call of the cycle loaded them.
ReferencedAndLoaded(c) ==
    {font_id \in DOMAIN trace[c].font_keys :
        /\ trace[c].font_keys[font_id] # {}
        /\ \/ font_id \in DOMAIN FontsBeforeCycle(c)
           \/ \E a \in AddsOfCycle(c) : <<"font", font_id, TRUE>> \in trace[a].load_log}

\* C7: after every cycle, one or more add calls followed by a collect call, the collect
\* has returned and the registered fonts are the fonts the add calls of the cycle
\* reference with a size and whose source loads.
C7_ResidentFontsAreReferenced ==
    \A c \in Cycles :
        /\ ~trace[c].panicked
        /\ DOMAIN trace[c].fonts = ReferencedAndLoaded(c)

\* C10: an image that a cycle references and leaves registered gets no further AddImage
\* and keeps its key while the next cycle references it; when the next cycle does not
\* reference it, that cycle's collect sends exactly one DeleteImage, with its key, and
\* unregisters it. An image that is not registered when a cycle begins gets at most one
\* image key in the cycle.
C10_ImageSymmetry ==
    \A c2 \in Cycles :
        LET c1 == PrevCollect(c2)
            images_before == IF c1 = 0 THEN EmptyMap ELSE trace[c1].images
            added == UNION {UpdatesIn(trace[a].api_calls, "AddImage") : a \in AddsOfCycle(c2)}
        IN /\ \A image_id \in ImageIds \ DOMAIN images_before : Cardinality(added) <= 1
           /\ \A image_id \in DOMAIN images_before :
                 IF image_id \in trace[c2].image_keys
                 THEN /\ added = {}
                      /\ image_id \in DOMAIN trace[c2].images
                      /\ trace[c2].images[image_id].key = images_before[image_id].key
                 ELSE /\ {u \in UpdatesIn(trace[c2].api_calls, "DeleteImage") :
                             u.key = images_before[image_id].key} # {}
                      /\ Len(trace[c2].api_calls) = 1
                      /\ image_id \notin DOMAIN trace[c2].images

\* ------------------------------------------------------ claims, load failures

\* What a failed load leaves alone and what the add phase still does, for the frame
\* display_list with the sources of env loading.
LoadFailureIsolated(display_list, env) ==
    LET scanned_fonts == scan_ui_description_for_font_keys(css_ids_to_font_ids, display_list)
        scanned_images == scan_ui_description_for_image_keys(css_ids_to_image_ids, display_list)
        failed_fonts == {id \in DOMAIN scanned_fonts \ DOMAIN currently_registered_fonts :
                            ~FontSourceLoads(id, env)}
        failed_images == {id \in scanned_images \ DOMAIN currently_registered_images :
                             ~ImageSourceLoads(id, env)}
        new_fonts == DOMAIN currently_registered_fonts' \ DOMAIN currently_registered_fonts
        new_images == DOMAIN currently_registered_images' \ DOMAIN currently_registered_images
        new_instances == Instances(currently_registered_fonts')
                             \ Instances(currently_registered_fonts)
    IN /\ ~panicked'
       /\ failed_fonts \cap DOMAIN currently_registered_fonts' = {}
       /\ failed_images \cap DOMAIN currently_registered_images' = {}
       \* keys and add records only for what became registered
       /\ render_api'.font_key - render_api.font_key = Cardinality(new_fonts)
       /\ render_api'.image_key - render_api.image_key = Cardinality(new_images)
       /\ render_api'.font_instance_key - render_api.font_instance_key
              = Cardinality(new_instances)
       /\ KeysIn(api_calls', "AddFont") =
              {currently_registered_fonts'[id].font_key : id \in new_fonts}
       /\ KeysIn(api_calls', "AddImage") =
              {currently_registered_images'[id].key : id \in new_images}
       /\ KeysIn(api_calls', "AddFontInstance") =
              {currently_registered_fonts'[p[1]].font_instances[p[2]] : p \in new_instances}
       /\ api_calls' # <<>> => Len(api_calls'[1].updates) = KeysMinted
       \* sources and aliases stay
       /\ UNCHANGED <<image_sources, font_sources, css_ids_to_image_ids, css_ids_to_font_ids>>
       \* what was registered stays as it was
       /\ \A id \in DOMAIN currently_registered_images :
             /\ id \in DOMAIN currently_registered_images'
             /\ currently_registered_images'[id] = currently_registered_images[id]
       /\ \A id \in DOMAIN currently_registered_fonts :
             /\ id \in DOMAIN currently_registered_fonts'
             /\ currently_registered_fonts'[id].font_key = currently_registered_fonts[id].font_key
             /\ currently_registered_fonts'[id].font_bytes = currently_registered_fonts[id].font_bytes
             /\ \A au \in DOMAIN currently_registered_fonts[id].font_instances :
                   /\ au \in DOMAIN currently_registered_fonts'[id].font_instances
                   /\ currently_registered_fonts'[id].font_instances[au] =
                          currently_registered_fonts[id].font_instances[au]
       \* the resources whose load succeeds are added
       /\ AddPhaseGuarantee(display_list, env)

\* C11: in add_fonts_and_images, a referenced font or image whose load fails is not
\* registered, gets no key and no add record; sources, aliases and the entries already
\* registered stay as they were; the other resources of the frame that load are added.
C11_LoadFailureIsolation ==
    [][\A display_list \in Frames :
          LET scanned_fonts ==
                  scan_ui_description_for_font_keys(css_ids_to_font_ids, display_list)
              scanned_images ==
                  scan_ui_description_for_image_keys(css_ids_to_image_ids, display_list)
          IN \A env \in SUBSET (FallibleSources \cap SourcesToLoad(scanned_fonts, scanned_images)) :
             \A font_order \in Orders(DOMAIN scanned_fonts) :
             \A size_order \in OrdersOf(scanned_fonts) :
             \A image_order \in Orders(scanned_images) :
                AddFontsAndImages(display_list, font_order, size_order, image_order, env)
                    => LoadFailureIsolated(display_list, env)]_vars

\* The load of the system font Helvetica has failed in every add call of the cycle that
\* referenced it (it is in the tracker and not registered, and no font key was ever
\* handed out), and the last add call of the cycle has registered image 0.
C11_Witness ==
    /\ Unresolved("Helvetica") \in DOMAIN last_frame_font_keys
    /\ Unresolved("Helvetica") \notin DOMAIN currently_registered_fonts
    /\ render_api.font_key = 0
    /\ Len(api_calls) = 2
    /\ UpdatesIn(api_calls, "AddImage") # {}
    /\ 0 \in last_frame_image_keys \cap DOMAIN currently_registered_images

\* The add calls of the trace, and the fonts and images registered when call a began.
Adds == {a \in DOMAIN trace : trace[a].op = "add"}
FontsBeforeCall(a) == IF a = 1 THEN EmptyMap ELSE trace[a - 1].fonts
ImagesBeforeCall(a) == IF a = 1 THEN EmptyMap ELSE trace[a - 1].images

\* The fonts and images whose source the call loaded.
LoadsOf(entry, kind) == {l[2] : l \in {m \in entry.load_log : m[1] = kind}}

\* C12: every add_fonts_and_images call loads the source of exactly the fonts and
\* images it references that are not registered when it begins, whatever the outcome of
\* earlier loads; a load that succeeds registers the resource, which is then not loaded
\* again while it stays registered.
C12_LoadRetry ==
    \A a \in Adds :
        /\ LoadsOf(trace[a], "font") = DOMAIN trace[a].font_keys \ DOMAIN FontsBeforeCall(a)
        /\ LoadsOf(trace[a], "image") =
               (trace[a].image_keys \cap DOMAIN image_sources) \ DOMAIN ImagesBeforeCall(a)
        /\ \A l \in trace[a].load_log :
              /\ l[1] = "font" => (l[3] <=> l[2] \in DOMAIN trace[a].fonts)
              /\ l[1] = "image" => (l[3] <=> l[2] \in DOMAIN trace[a].images)

\* Three add calls in a row reference Helvetica: its load fails in the first, is tried
\* again and succeeds in the second, and the third does not load it.
C12_Witness ==
    /\ Len(trace) >= 3
    /\ \A a \in 1..3 : /\ trace[a].op = "add"
                       /\ Unresolved("Helvetica") \in DOMAIN trace[a].font_keys
    /\ <<"font", Unresolved("Helvetica"), FALSE>> \in trace[1].load_log
    /\ <<"font", Unresolved("Helvetica"), TRUE>> \in trace[2].load_log
    /\ Unresolved("Helvetica") \notin LoadsOf(trace[3], "font")

\* ------------------------------------------------------ claims, the tracker

\* The last call of the trace.
LastCall == trace[Len(trace)]

\* C13, as claimed: after every add_fonts_and_images call the tracker is exactly the
\* font reference map and the image reference set scanned for the call's frame.
C13_TrackerIsLastScan ==
    (Len(trace) > 0 /\ LastCall.op = "add") =>
        /\ last_frame_font_keys = LastCall.font_keys
        /\ last_frame_image_keys = LastCall.image_keys

\* C13, amended: an add_fonts_and_images call extends the tracker by the scan of its
\* frame: a scanned font gets the scanned size set, a scanned image is added, and the
\* references of the earlier add calls since the tracker was cleared stay.
C13_TrackerExtendedByScan ==
    [][CycleAdd =>
          LET scanned == trace'[Len(trace')]
          IN /\ last_frame_font_keys' =
                    [id \in DOMAIN last_frame_font_keys \cup DOMAIN scanned.font_keys |->
                        IF id \in DOMAIN scanned.font_keys
                        THEN scanned.font_keys[id] ELSE last_frame_font_keys[id]]
             /\ last_frame_image_keys' = last_frame_image_keys \cup scanned.image_keys]_vars

\* Two add calls in a row, for frame 1 and then frame 2 of test_font_gc: the tracker
\* holds the three fonts of the first call next to the font of the second.
C13_Witness ==
    /\ Len(trace) >= 2
    /\ trace[Len(trace) - 1].op = "add" /\ LastCall.op = "add"
    /\ DOMAIN LastCall.font_keys = {Unresolved("sans-serif")}
    /\ Cardinality(DOMAIN trace[Len(trace) - 1].font_keys) = 3
    /\ Cardinality(DOMAIN last_frame_font_keys) = 4

\* C17: when garbage_collect_fonts_and_images returns, every registered font has at
\* least one font instance: a font whose last instance the call deleted was deleted
\* with it.
C17_NoFontWithoutInstances ==
    [][(CollectStep /\ ~panicked') =>
          \A id \in DOMAIN currently_registered_fonts' :
             DOMAIN currently_registered_fonts'[id].font_instances # {}]_vars

\* ------------------------------------------------- claims, ids and aliases

\* The calls that register an alias, the calls that remove one, and the removal that
\* undoes a registration.
AddAliasOps == {"add_css_image_id", "add_css_font_id"}
DeleteOpOf(op) == IF op = "add_css_image_id" THEN "delete_css_image_id" ELSE "delete_css_font_id"
AliasMapOf(op) == IF op = "add_css_image_id" THEN css_ids_to_image_ids ELSE css_ids_to_font_ids

\* The alias registered by call i was removed by a call between i and j.
DeletedBetween(i, j) ==
    \E k \in DOMAIN trace :
        /\ i < k /\ k < j
        /\ trace[k].op = DeleteOpOf(trace[i].op)
        /\ trace[k].arg = trace[i].arg

\* C14, as claimed: two registrations of the same alias return the same id, whatever
\* calls were made between them.
C14_AliasStableForever ==
    \A i, j \in DOMAIN trace :
        (/\ i < j
         /\ trace[i].op \in AddAliasOps
         /\ trace[j].op = trace[i].op
         /\ trace[j].arg = trace[i].arg)
        => trace[j].ret = trace[i].ret

\* C14, amended: two registrations of the same alias return the same id when the alias
\* was not removed between them, and the later one returns a greater, newly minted id
\* when it was; a registered alias is bound to the id its last registration returned.
C14_AliasStableWhileRegistered ==
    /\ \A i, j \in DOMAIN trace :
          (/\ i < j
           /\ trace[i].op \in AddAliasOps
           /\ trace[j].op = trace[i].op
           /\ trace[j].arg = trace[i].arg)
          => IF DeletedBetween(i, j)
             THEN trace[j].ret[1] > trace[i].ret[1]
             ELSE trace[j].ret = trace[i].ret
    /\ \A i \in DOMAIN trace :
          (/\ trace[i].op \in AddAliasOps
           /\ ~DeletedBetween(i, Len(trace) + 1))
          => /\ trace[i].arg \in DOMAIN AliasMapOf(trace[i].op)
             /\ trace[i].ret = <<AliasMapOf(trace[i].op)[trace[i].arg]>>

\* "cat" was registered with ImageId 0, registered again, removed and registered anew:
\* it is bound to ImageId 1.
C14_Witness ==
    /\ Len(trace) >= 4
    /\ trace[1] = Call("add_css_image_id", "cat", <<0>>)
    /\ trace[2] = Call("add_css_image_id", "cat", <<0>>)
    /\ trace[3] = Call("delete_css_image_id", "cat", <<0>>)
    /\ trace[4] = Call("add_css_image_id", "cat", <<1>>)
    /\ css_ids_to_image_ids["cat"] = 1

\* No two aliases of the map are bound to the same id.
Injective(m) == \A a, b \in DOMAIN m : a # b => m[a] # m[b]

\* C15: add_css_image_id and add_css_font_id with an alias that is registered return
\* the id it is bound to, mint no id and leave the registry as it is; in every state no
\* two registered aliases of a kind are bound to the same id.
C15_MonotonicIdentity ==
    [][/\ (CallAddCssImageId \/ CallAddCssFontId) =>
             LET call == trace'[Len(trace')]
             IN call.arg \in DOMAIN AliasMapOf(call.op) =>
                   /\ call.ret = <<AliasMapOf(call.op)[call.arg]>>
                   /\ UNCHANGED <<css_ids_to_image_ids, css_ids_to_font_ids,
                                  IMAGE_ID_COUNTER, FONT_ID_COUNTER>>
       /\ Injective(css_ids_to_image_ids') /\ Injective(css_ids_to_font_ids')]_vars

\* Both image aliases are registered, with different ids, and the last call registered
\* "dog" a second time and got the id of the first time.
C15_Witness ==
    /\ Len(trace) = 3
    /\ trace[1].op = "add_css_image_id" /\ trace[1].arg = "cat"
    /\ trace[2].op = "add_css_image_id" /\ trace[2].arg = "dog"
    /\ trace[3] = trace[2]
    /\ DOMAIN css_ids_to_image_ids = {"cat", "dog"}
    /\ css_ids_to_image_ids["cat"] # css_ids_to_image_ids["dog"]
    /\ IMAGE_ID_COUNTER = 2

\* The calls that return an ImageId, a FontId, a TextId.
ImageIdOps == {"add_css_image_id", "delete_css_image_id", "ImageId::new"}
FontIdOps == {"add_css_font_id", "delete_css_font_id", "FontId::new"}
TextIdOps == {"add_text"}

\* The ids the calls of the trace with an op of ops returned.
IdsReturned(ops) ==
    {trace[i].ret[1] : i \in {k \in DOMAIN trace : trace[k].op \in ops /\ trace[k].ret # <<>>}}

\* C16: a call that mints an ImageId, a FontId or a TextId (the counter of the kind
\* moves) returns an id greater than every id of the kind returned before, also after
\* aliases and texts were deleted and the text cache was cleared.
C16_IdsNeverReused ==
    [][LET call == trace'[Len(trace')]
       IN /\ IMAGE_ID_COUNTER' # IMAGE_ID_COUNTER =>
                /\ call.op \in ImageIdOps
                /\ \A id \in IdsReturned(ImageIdOps) : id < call.ret[1]
          /\ FONT_ID_COUNTER' # FONT_ID_COUNTER =>
                /\ call.op \in FontIdOps
                /\ \A id \in IdsReturned(FontIdOps) : id < call.ret[1]
          /\ TEXT_ID_COUNTER' # TEXT_ID_COUNTER =>
                /\ call.op \in TextIdOps
                /\ \A id \in IdsReturned(TextIdOps) : id < call.ret[1]]_vars

\* TextId 0 was deleted and the next add_text returned TextId 1; the alias "cat" lost
\* ImageId 0 and was registered anew with ImageId 1.
C16_Witness ==
    /\ Len(trace) = 5
    /\ Call("add_text", "lorem ipsum", <<0>>) \in {trace[i] : i \in 1..4}
    /\ DOMAIN text_cache = {1}
    /\ Call("delete_css_image_id", "cat", <<0>>) \in {trace[i] : i \in 1..4}
    /\ DOMAIN css_ids_to_image_ids = {"cat"}
    /\ css_ids_to_image_ids["cat"] = 1

\* The Source Store, the Resident Set, the Frame Reference Tracker and the alias
\* registry, as the variables that hold them.
SourceStore == <<image_sources, font_sources>>
ResidentSet == <<currently_registered_images, currently_registered_fonts>>
FrameReferenceTracker == <<last_frame_image_keys, last_frame_font_keys>>
AliasRegistry == <<css_ids_to_image_ids, css_ids_to_font_ids>>

\* What a delete_css_*_id call of SpecStore did to the alias map it works on: the
\* alias is gone, every other alias is bound as before, and the call returned the id
\* the alias was bound to, or nothing.
AliasRemoved(map, map_after, call) ==
    /\ DOMAIN map_after = DOMAIN map \ {call.arg}
    /\ \A other \in DOMAIN map_after : map_after[other] = map[other]
    /\ call.ret = IF call.arg \in DOMAIN map THEN <<map[call.arg]>> ELSE <<>>

\* C18: delete_css_image_id and delete_css_font_id remove only the mapping of the
\* given alias and return the id that was bound to it (nothing when the alias was
\* not registered); the sources, the registered resources, the last_frame maps and
\* every other alias mapping are unchanged.
C18_RemoveAliasFrame ==
    [][/\ StoreDeleteCssImageId =>
              /\ AliasRemoved(css_ids_to_image_ids, css_ids_to_image_ids', trace'[1])
              /\ UNCHANGED <<css_ids_to_font_ids, SourceStore, ResidentSet,
                             FrameReferenceTracker>>
       /\ StoreDeleteCssFontId =>
              /\ AliasRemoved(css_ids_to_font_ids, css_ids_to_font_ids', trace'[1])
              /\ UNCHANGED <<css_ids_to_image_ids, SourceStore, ResidentSet,
                             FrameReferenceTracker>>]_vars

\* C18 witness: delete_css_image_id("cat") has just returned ImageId 0 while that
\* image has a source, is registered and is in last_frame_image_keys, another image
\* alias and a font alias are registered, a font has a source and a font is registered.
C18_Witness ==
    /\ trace = <<Call("delete_css_image_id", "cat", <<0>>)>>
    /\ 0 \in DOMAIN image_sources
    /\ 0 \in DOMAIN currently_registered_images
    /\ 0 \in last_frame_image_keys
    /\ "dog" \in DOMAIN css_ids_to_image_ids
    /\ css_ids_to_font_ids # EmptyMap
    /\ font_sources # EmptyMap
    /\ currently_registered_fonts # EmptyMap

\* C19: add_image, add_font, delete_image and delete_font change only the source
\* entry of the id they are given, and neither the registered resources, the
\* last_frame maps nor the aliases; add_fonts_and_images and
\* garbage_collect_fonts_and_images change no source entry and no alias mapping.
C19_SourceStoreIndependent ==
    [][/\ StoreAddImage =>
              /\ \E image_id \in 0..(IMAGE_ID_COUNTER - 1) :
                    /\ image_id \in DOMAIN image_sources'
                    /\ MapRemove(image_sources', image_id) = MapRemove(image_sources, image_id)
              /\ UNCHANGED <<font_sources, ResidentSet, FrameReferenceTracker, AliasRegistry>>
       /\ StoreDeleteImage =>
              /\ \E image_id \in 0..(IMAGE_ID_COUNTER - 1) :
                    image_sources' = MapRemove(image_sources, image_id)
              /\ UNCHANGED <<font_sources, ResidentSet, FrameReferenceTracker, AliasRegistry>>
       /\ StoreAddFont =>
              /\ \E font_id \in 0..(FONT_ID_COUNTER - 1) :
                    /\ font_id \in DOMAIN font_sources'
                    /\ MapRemove(font_sources', font_id) = MapRemove(font_sources, font_id)
              /\ UNCHANGED <<image_sources, ResidentSet, FrameReferenceTracker, AliasRegistry>>
       /\ StoreDeleteFont =>
              /\ \E font_id \in 0..(FONT_ID_COUNTER - 1) :
                    font_sources' = MapRemove(font_sources, font_id)
              /\ UNCHANGED <<image_sources, ResidentSet, FrameReferenceTracker, AliasRegistry>>
       /\ (StoreAddPhase \/ StoreCollect) => UNCHANGED <<SourceStore, AliasRegistry>>]_vars

\* C19 witness: ImageId 0 is registered, in last_frame_image_keys and bound to the
\* alias "cat", and its source has been deleted; a font has a source and a font is
\* registered.
C19_Witness ==
    /\ 0 \notin DOMAIN image_sources
    /\ 0 \in DOMAIN currently_registered_images
    /\ 0 \in last_frame_image_keys
    /\ "cat" \in DOMAIN css_ids_to_image_ids
    /\ css_ids_to_image_ids["cat"] = 0
    /\ font_sources # EmptyMap
    /\ currently_registered_fonts # EmptyMap


\* The keys the render API has handed out so far, per kind.
ImageKeysMinted(api) == 0..(api.image_key - 1)
FontKeysMinted(api) == 0..(api.font_key - 1)
FontInstanceKeysMinted(api) == 0..(api.font_instance_key - 1)

\* Every key of a registered resource was handed out by the render API, and no two
\* registered images, no two registered fonts and no two registered font instances
\* have the same key.
ResidentKeysMintedAndUnique(registered_images, registered_fonts, api) ==
    /\ \A id \in DOMAIN registered_images : registered_images[id].key \in ImageKeysMinted(api)
    /\ \A id \in DOMAIN registered_fonts : registered_fonts[id].font_key \in FontKeysMinted(api)
    /\ \A p \in Instances(registered_fonts) :
          registered_fonts[p[1]].font_instances[p[2]] \in FontInstanceKeysMinted(api)
    /\ \A a, b \in DOMAIN registered_images :
          a # b => registered_images[a].key # registered_images[b].key
    /\ \A a, b \in DOMAIN registered_fonts :
          a # b => registered_fonts[a].font_key # registered_fonts[b].font_key
    /\ \A p, q \in Instances(registered_fonts) :
          p # q => registered_fonts[p[1]].font_instances[p[2]]
                       # registered_fonts[q[1]].font_instances[q[2]]

\* C20: with a render API whose new_*_key calls return a new key each, at every state
\* each key of a registered resource was returned by such a call and no two registered
\* resources of a kind have the same key; and the keys an add phase obtains are the
\* keys of the AddImage, AddFont and AddFontInstance updates it submits.
C20_ResidentKeys ==
    [][/\ ResidentKeysMintedAndUnique(currently_registered_images', currently_registered_fonts',
                                      render_api')
       /\ StoreAddPhase =>
              /\ ImageKeysMinted(render_api') \ ImageKeysMinted(render_api)
                     = KeysIn(api_calls', "AddImage")
              /\ FontKeysMinted(render_api') \ FontKeysMinted(render_api)
                     = KeysIn(api_calls', "AddFont")
              /\ FontInstanceKeysMinted(render_api') \ FontInstanceKeysMinted(render_api)
                     = KeysIn(api_calls', "AddFontInstance")
       /\ ~StoreAddPhase => render_api' = render_api]_vars

\* C20 witness: two images, two fonts and two font instances are registered, and the
\* last add phase submitted an AddImage for a key it obtained.
C20_Witness ==
    /\ Cardinality(DOMAIN currently_registered_images) = 2
    /\ Cardinality(DOMAIN currently_registered_fonts) = 2
    /\ Cardinality(Instances(currently_registered_fonts)) = 2
    /\ KeysIn(api_calls, "AddImage") = {1}


\* C21: add_text returns a TextId that no earlier add_text returned, and get_text of it
\* then yields the words of the text; after delete_text(id), get_text(id) is None and
\* every other id yields what it did; deleting an id that has no entry changes
\* nothing; after clear_all_texts get_text of every id is None.
C21_TextCache ==
    [][/\ TextAdd =>
              LET call == trace'[Len(trace')]
                  id == call.ret[1]
              IN /\ \A i \in DOMAIN trace : trace[i].ret # <<id>>
                 /\ GetText(text_cache', id) = <<split_text_into_words(call.arg)>>
                 /\ \A other \in 0..MaxTextIds :
                       other # id => GetText(text_cache', other) = GetText(text_cache, other)
       /\ \A id \in 0..MaxTextIds :
             (DeleteText(id) /\ UNCHANGED trace) =>
                 /\ GetText(text_cache', id) = <<>>
                 /\ \A other \in 0..MaxTextIds :
                       other # id => GetText(text_cache', other) = GetText(text_cache, other)
                 /\ GetText(text_cache, id) = <<>> => text_cache' = text_cache
       /\ TextClear => \A id \in 0..MaxTextIds : GetText(text_cache', id) = <<>>]_vars

\* C21 witness: two texts were added under the TextIds 0 and 1, the first was deleted
\* and the second still yields its two words.
C21_Witness ==
    /\ Len(trace) = 2
    /\ trace[1] = Call("add_text", "dolor", <<0>>)
    /\ trace[2] = Call("add_text", "lorem ipsum", <<1>>)
    /\ GetText(text_cache, 0) = <<>>
    /\ GetText(text_cache, 1) = << <<<<"l", "o", "r", "e", "m">>, <<"i", "p", "s", "u", "m">>>> >>


\* ------------------------------------------------ claims, repeated add phases

\* The add calls that come right after an add call with the same references, that is,
\* add_fonts_and_images called again with the same frame and no collect in between.
RepeatedAdds ==
    {a \in Adds : /\ a > 1
                  /\ trace[a - 1].op = "add"
                  /\ trace[a - 1].font_keys = trace[a].font_keys
                  /\ trace[a - 1].image_keys = trace[a].image_keys}

\* The call made no render API call, obtained no key and left the registered fonts
\* and images as the call before it left them.
AddedNothing(a) ==
    /\ trace[a].api_calls = <<>>
    /\ trace[a].render_api = trace[a - 1].render_api
    /\ trace[a].fonts = trace[a - 1].fonts
    /\ trace[a].images = trace[a - 1].images

\* The fonts and images whose load failed in the call.
FailedLoads(entry, kind) ==
    {l[2] : l \in {m \in entry.load_log : m[1] = kind /\ ~m[3]}}

\* C22, as claimed: every add_fonts_and_images call that repeats the call before it
\* emits nothing, calls neither update_resources nor flush_scene_builder and leaves
\* the registered resources unchanged.
C22_RepeatedAddEmpty == \A a \in RepeatedAdds : AddedNothing(a)

\* C22, amended: a repeated call adds nothing when no load failed in the call before
\* it; in any case it registers only fonts and images whose load failed in the call
\* before it, and what was registered keeps its keys.
C22_RepeatedAddRetriesOnly ==
    \A a \in RepeatedAdds :
        /\ (\A l \in trace[a - 1].load_log : l[3]) => AddedNothing(a)
        /\ DOMAIN trace[a].fonts \ DOMAIN trace[a - 1].fonts
               \subseteq FailedLoads(trace[a - 1], "font")
        /\ DOMAIN trace[a].images \ DOMAIN trace[a - 1].images
               \subseteq FailedLoads(trace[a - 1], "image")
        /\ \A id \in DOMAIN trace[a - 1].fonts : trace[a].fonts[id] = trace[a - 1].fonts[id]
        /\ \A id \in DOMAIN trace[a - 1].images : trace[a].images[id] = trace[a - 1].images[id]

\* C22 witness: the frame with Helvetica at two sizes and image 0 is added twice in a
\* row; the first call loads and registers all of it, the second adds nothing.
C22_Witness ==
    /\ Len(trace) >= 2
    /\ 2 \in RepeatedAdds
    /\ trace[1].image_keys = {0}
    /\ DOMAIN trace[1].font_keys = {Unresolved("Helvetica")}
    /\ Cardinality(trace[1].font_keys[Unresolved("Helvetica")]) = 2
    /\ trace[1].load_log = {<<"font", Unresolved("Helvetica"), TRUE>>, <<"image", 0, TRUE>>}
    /\ Len(trace[1].api_calls) = 2
    /\ AddedNothing(2)


\* ------------------------------------------- claims, fonts that are registered

\* The render API's counters when call a began.
RenderApiBeforeCall(a) ==
    IF a = 1 THEN [font_key |-> 0, font_instance_key |-> 0, image_key |-> 0]
    ELSE trace[a - 1].render_api

\* The resource updates the call submitted, in their order.
UpdatesOfCall(a) ==
    IF trace[a].api_calls = <<>> THEN <<>> ELSE trace[a].api_calls[1].updates

\* The positions in the call's batch of the AddFontInstance updates with the font key.
InstanceUpdatesFor(a, font_key) ==
    {k \in DOMAIN UpdatesOfCall(a) :
        /\ UpdatesOfCall(a)[k].update = "AddFontInstance"
        /\ UpdatesOfCall(a)[k].font_key = font_key}

\* C23: when add_fonts_and_images references a font that is registered, the font keeps
\* its font key and the instance keys it has; each referenced size it has no instance
\* for gets one newly obtained instance key and one AddFontInstance update with the
\* font's key; no AddFont update is made for the font and no font key is obtained for it.
C23_ResidentFontInstances ==
    \A a \in Adds :
       /\ \A id \in DOMAIN trace[a].font_keys \cap DOMAIN FontsBeforeCall(a) :
             LET before == FontsBeforeCall(a)[id]
                 after == trace[a].fonts[id]
                 missing == trace[a].font_keys[id] \ DOMAIN before.font_instances
                 at == InstanceUpdatesFor(a, before.font_key)
             IN /\ after.font_key = before.font_key
                /\ DOMAIN after.font_instances = DOMAIN before.font_instances \cup missing
                /\ \A au \in DOMAIN before.font_instances :
                      after.font_instances[au] = before.font_instances[au]
                /\ Cardinality(at) = Cardinality(missing)
                /\ \A au \in missing :
                      /\ after.font_instances[au] >= RenderApiBeforeCall(a).font_instance_key
                      /\ after.font_instances[au] < trace[a].render_api.font_instance_key
                      /\ \E k \in at :
                            /\ UpdatesOfCall(a)[k].glyph_size = au
                            /\ UpdatesOfCall(a)[k].key = after.font_instances[au]
                /\ before.font_key \notin KeysIn(trace[a].api_calls, "AddFont")
       /\ trace[a].render_api.font_key - RenderApiBeforeCall(a).font_key
              = Cardinality(DOMAIN trace[a].fonts \ DOMAIN FontsBeforeCall(a))
       /\ trace[a].render_api.font_instance_key - RenderApiBeforeCall(a).font_instance_key
              = Cardinality(UpdatesIn(trace[a].api_calls, "AddFontInstance"))

\* C23 witness: Helvetica is registered at size 10 by the first call; the second call
\* references it at 10 and 12 and adds the instance for 12 under the same font key.
C23_Witness ==
    /\ Len(trace) >= 2
    /\ trace[1].op = "add" /\ trace[2].op = "add"
    /\ Unresolved("Helvetica") \in DOMAIN trace[1].fonts
    /\ DOMAIN trace[1].fonts[Unresolved("Helvetica")].font_instances = {10}
    /\ Unresolved("Helvetica") \in DOMAIN trace[2].font_keys
    /\ trace[2].font_keys[Unresolved("Helvetica")] = {10, 12}
    /\ trace[2].fonts[Unresolved("Helvetica")].font_key
           = trace[1].fonts[Unresolved("Helvetica")].font_key
    /\ DOMAIN trace[2].fonts[Unresolved("Helvetica")].font_instances = {10, 12}
    /\ trace[2].fonts[Unresolved("Helvetica")].font_instances[10]
           # trace[2].fonts[Unresolved("Helvetica")].font_instances[12]


\* ------------------------------------------------- claims, the add batch

\* The resource updates of the step's update_resources call, in their order.
UpdatesSubmitted == IF api_calls' = <<>> THEN <<>> ELSE api_calls'[1].updates

\* C24: in the batch add_fonts_and_images submits, every AddFont and AddFontInstance
\* update comes before every AddImage update, and the AddFont update of a font comes
\* before every AddFontInstance update with that font's key.
C24_AddBatchOrder ==
    [][AddStep =>
          \A i, j \in DOMAIN UpdatesSubmitted :
             /\ (/\ UpdatesSubmitted[i].update \in {"AddFont", "AddFontInstance"}
                 /\ UpdatesSubmitted[j].update = "AddImage") => i < j
             /\ (/\ UpdatesSubmitted[i].update = "AddFont"
                 /\ UpdatesSubmitted[j].update = "AddFontInstance"
                 /\ UpdatesSubmitted[j].font_key = UpdatesSubmitted[i].key) => i < j]_vars

\* C24 witness: a batch of an AddFont, two AddFontInstance and an AddImage update.
C24_Witness ==
    /\ Len(api_calls) = 2
    /\ Len(api_calls[1].updates) = 4
    /\ api_calls[1].updates[1].update = "AddFont"
    /\ api_calls[1].updates[2].update = "AddFontInstance"
    /\ api_calls[1].updates[3].update = "AddFontInstance"
    /\ api_calls[1].updates[4].update = "AddImage"


\* ------------------------------------------------ claims, the delete phase

\* C25: garbage_collect_fonts_and_images deletes a registered font, with a DeleteFont
\* update of its key, only when the font has no entry in last_frame_font_keys or has no
\* font instance as the collect begins; a font that has an entry and an instance stays
\* registered and gets no DeleteFont update.
C25_DeleteFontPrecondition ==
    [][CollectStep =>
          \A id \in DOMAIN currently_registered_fonts :
             LET loaded_font == currently_registered_fonts[id]
                 deletable == \/ id \notin DOMAIN last_frame_font_keys
                              \/ DOMAIN loaded_font.font_instances = {}
             IN /\ loaded_font.font_key \in KeysIn(api_calls', "DeleteFont") => deletable
                /\ id \notin DOMAIN currently_registered_fonts' => deletable
                /\ (~deletable /\ ~panicked') =>
                       /\ id \in DOMAIN currently_registered_fonts'
                       /\ currently_registered_fonts'[id].font_key = loaded_font.font_key]_vars

\* C25 witness: a collect has deleted the only font that was ever registered, which
\* had no instance left, with a DeleteFont update of its key as its only update.
C25_Witness ==
    /\ ~panicked
    /\ render_api.font_key = 1
    /\ currently_registered_fonts = EmptyMap
    /\ api_calls = << [call |-> "update_resources",
                       updates |-> << [update |-> "DeleteFont", key |-> 0] >>] >>


\* ------------------------------------- claims, fonts that are not registered

\* The fonts an add call references that were not registered when it began.
NewlyReferenced(a) == DOMAIN trace[a].font_keys \ DOMAIN FontsBeforeCall(a)

\* The call obtained one font key per font it registered and one instance key per
\* AddFontInstance update, and its AddFont updates are those of the fonts it registered.
KeysAccounted(a) ==
    LET registered == DOMAIN trace[a].fonts \ DOMAIN FontsBeforeCall(a)
    IN /\ trace[a].render_api.font_key - RenderApiBeforeCall(a).font_key
              = Cardinality(registered)
       /\ KeysIn(trace[a].api_calls, "AddFont") = {trace[a].fonts[id].font_key : id \in registered}
       /\ trace[a].render_api.font_instance_key - RenderApiBeforeCall(a).font_instance_key
              = Cardinality(UpdatesIn(trace[a].api_calls, "AddFontInstance"))
       /\ \A u \in UpdatesIn(trace[a].api_calls, "AddFontInstance") :
             \E id \in DOMAIN trace[a].fonts :
                /\ trace[a].fonts[id].font_key = u.font_key
                /\ u.glyph_size \in DOMAIN trace[a].fonts[id].font_instances
                /\ trace[a].fonts[id].font_instances[u.glyph_size] = u.key

\* C26: for a referenced font that is not registered, a Resolved(FontId) without an
\* entry in font_sources is skipped: not loaded, not registered, no key and no update;
\* one with an entry is loaded from that entry; an Unresolved(css id) is loaded as the
\* system font of the css id, whether or not font_sources or css_ids_to_font_ids has
\* any entry. A font is registered, with the bytes of that source, exactly when the
\* load succeeds and it is referenced at some size.
C26_FontSourceResolution ==
    \A a \in Adds :
       /\ KeysAccounted(a)
       /\ \A id \in NewlyReferenced(a) :
             LET skipped == id[1] = "Resolved" /\ id[2] \notin DOMAIN font_sources
                 font_source == IF id[1] = "Resolved" THEN font_sources[id[2]]
                                ELSE FontSourceSystem(id[2])
             IN IF skipped
                THEN /\ id \notin LoadsOf(trace[a], "font")
                     /\ id \notin DOMAIN trace[a].fonts
                ELSE LET loads == font_source[1] = "Embedded" \/ font_source \in trace[a].env
                     IN /\ <<"font", id, loads>> \in trace[a].load_log
                        /\ <<"font", id, ~loads>> \notin trace[a].load_log
                        /\ id \in DOMAIN trace[a].fonts <=> (loads /\ trace[a].font_keys[id] # {})
                        /\ id \in DOMAIN trace[a].fonts =>
                               trace[a].fonts[id].font_bytes = font_source

\* C26 witness: with no alias registered and a source for FontId 1 only, a call that
\* references FontId 0, FontId 1 and Helvetica skips the first, registers the second
\* from its file and the third from the system font.
C26_Witness ==
    /\ Len(trace) = 2
    /\ css_ids_to_font_ids = EmptyMap
    /\ font_sources = MapInsert(EmptyMap, 1, FontSourceFile)
    /\ trace[1].fonts = EmptyMap
    /\ trace[2].font_keys = [id \in BuildFontIds |-> {10}]
    /\ DOMAIN trace[2].fonts = {Resolved(1), Unresolved("Helvetica")}
    /\ trace[2].fonts[Resolved(1)].font_bytes = FontSourceFile
    /\ trace[2].fonts[Unresolved("Helvetica")].font_bytes = FontSourceSystem("Helvetica")

\* C27: a referenced font that is not registered and is given an empty set of sizes
\* does not become registered, no font key and no instance key is obtained for it and
\* no update is made for it; a call that references nothing else obtains no key at
\* all and calls neither update_resources nor flush_scene_builder.
C27_EmptySizeSet ==
    \A a \in Adds :
       /\ KeysAccounted(a)
       /\ \A id \in NewlyReferenced(a) :
             trace[a].font_keys[id] = {} => id \notin DOMAIN trace[a].fonts
       /\ (\A id \in DOMAIN trace[a].font_keys : trace[a].font_keys[id] = {}) =>
              /\ trace[a].render_api = RenderApiBeforeCall(a)
              /\ trace[a].api_calls = <<>>
              /\ trace[a].fonts = FontsBeforeCall(a)

\* C27 witness: FontId 0, which has an embedded source that loads, is referenced with
\* no size next to Helvetica at size 12; Helvetica alone is registered.
C27_Witness ==
    /\ Len(trace) = 2
    /\ font_sources = MapInsert(EmptyMap, 0, FontSourceEmbedded)
    /\ trace[1].fonts = EmptyMap
    /\ DOMAIN trace[2].font_keys = {Resolved(0), Unresolved("Helvetica")}
    /\ trace[2].font_keys[Resolved(0)] = {}
    /\ trace[2].font_keys[Unresolved("Helvetica")] = {12}
    /\ <<"font", Resolved(0), TRUE>> \in trace[2].load_log
    /\ DOMAIN trace[2].fonts = {Unresolved("Helvetica")}
    /\ trace[2].render_api = [font_key |-> 1, font_instance_key |-> 1, image_key |-> 0]


\* ------------------------------------------------ claims, the tracker reset

\* The collect calls of the trace that come right after another collect call.
SecondCollects == {c \in Collects : c > 1 /\ trace[c - 1].op = "collect"}

\* C28: when garbage_collect_fonts_and_images returns, last_frame_font_keys and
\* last_frame_image_keys are empty; a collect that comes right after a collect finds
\* both empty, so that no registered font or image is referenced, and when it returns
\* none is registered any more.
C28_TrackerReset ==
    /\ (Len(trace) > 0 /\ LastCall.op = "collect" /\ ~panicked) =>
           /\ last_frame_font_keys = EmptyMap
           /\ last_frame_image_keys = {}
    /\ \A c \in SecondCollects :
          /\ trace[c].font_keys = EmptyMap
          /\ trace[c].image_keys = {}
          /\ ~trace[c].panicked =>
                 /\ trace[c].fonts = EmptyMap
                 /\ trace[c].images = EmptyMap

\* C28 witness: a frame with a font and an image is added and collected, which leaves
\* both registered, and a second collect right after it removes both.
C28_Witness ==
    /\ Len(trace) = 3
    /\ trace[1].op = "add" /\ trace[2].op = "collect" /\ trace[3].op = "collect"
    /\ trace[2].font_keys # EmptyMap
    /\ trace[2].image_keys # {}
    /\ trace[2].fonts # EmptyMap
    /\ trace[2].images # EmptyMap
    /\ ~panicked
    /\ currently_registered_fonts = EmptyMap
    /\ currently_registered_images = EmptyMap
    /\ last_frame_font_keys = EmptyMap
    /\ last_frame_image_keys = {}


\* ------------------------------------- claims, who changes what is registered

\* Every image, font and font instance of the first pair of maps is in the second,
\* with the same keys.
ResidentWithin(images, fonts, more_images, more_fonts) ==
    /\ \A id \in DOMAIN images : id \in DOMAIN more_images /\ more_images[id] = images[id]
    /\ \A id \in DOMAIN fonts :
          /\ id \in DOMAIN more_fonts
          /\ more_fonts[id].font_key = fonts[id].font_key
          /\ \A au \in DOMAIN fonts[id].font_instances :
                /\ au \in DOMAIN more_fonts[id].font_instances
                /\ more_fonts[id].font_instances[au] = fonts[id].font_instances[au]

\* The kinds of the resource updates of the step's render API calls.
UpdateKinds == {u.update : u \in UNION {UpdatesIn(api_calls', k) :
                   k \in {"AddFont", "AddFontInstance", "AddImage",
                          "DeleteFont", "DeleteFontInstance", "DeleteImage"}}}

\* C29: add_fonts_and_images removes no registered image, font or font instance and
\* submits no delete update; garbage_collect_fonts_and_images registers nothing,
\* obtains no key and submits no add update; the alias and source operations leave
\* the registered images and fonts as they are.
C29_ResidencyOnlyByPhases ==
    [][/\ StoreAddPhase =>
              /\ ResidentWithin(currently_registered_images, currently_registered_fonts,
                                currently_registered_images', currently_registered_fonts')
              /\ UpdateKinds \subseteq {"AddFont", "AddFontInstance", "AddImage"}
       /\ StoreCollect =>
              /\ ResidentWithin(currently_registered_images', currently_registered_fonts',
                                currently_registered_images, currently_registered_fonts)
              /\ render_api' = render_api
              /\ UpdateKinds \subseteq {"DeleteFont", "DeleteFontInstance", "DeleteImage"}
       /\ (\/ StoreAddCssImageId \/ StoreDeleteCssImageId
           \/ StoreAddCssFontId \/ StoreDeleteCssFontId
           \/ StoreAddImage \/ StoreDeleteImage
           \/ StoreAddFont \/ StoreDeleteFont) => UNCHANGED ResidentSet]_vars

\* C29 witness: a collect has just deleted font instances and nothing else, while two
\* fonts and an image stay registered.
C29_Witness ==
    /\ Len(api_calls) = 1
    /\ KeysIn(api_calls, "DeleteFontInstance") # {}
    /\ KeysIn(api_calls, "DeleteImage") = {}
    /\ Cardinality(DOMAIN currently_registered_fonts) = 2
    /\ currently_registered_images # EmptyMap


\* ------------------------------------------ claims, registering anew

\* The fonts and images that were registered when collect c began and are not
\* registered after it.
FontsEvicted(c) == DOMAIN FontsBeforeCall(c) \ DOMAIN trace[c].fonts
ImagesEvicted(c) == DOMAIN ImagesBeforeCall(c) \ DOMAIN trace[c].images

\* C30: a font or image that a collect removed and that a later add_fonts_and_images
\* call references while it is not registered is loaded again by that call; when the
\* load succeeds it is registered again, under a key the render API hands out in that
\* call, which is not the key it had when it was removed.
C30_RecreatedAfterEviction ==
    \A c \in Collects : \A a \in {b \in Adds : b > c} :
       /\ \A id \in (FontsEvicted(c) \cap DOMAIN trace[a].font_keys) \ DOMAIN FontsBeforeCall(a) :
             /\ id \in LoadsOf(trace[a], "font")
             /\ <<"font", id, TRUE>> \in trace[a].load_log =>
                    /\ id \in DOMAIN trace[a].fonts
                    /\ trace[a].fonts[id].font_key # FontsBeforeCall(c)[id].font_key
                    /\ trace[a].fonts[id].font_key >= RenderApiBeforeCall(a).font_key
                    /\ trace[a].fonts[id].font_key < trace[a].render_api.font_key
                    /\ DOMAIN trace[a].fonts[id].font_instances = trace[a].font_keys[id]
       /\ \A id \in (ImagesEvicted(c) \cap trace[a].image_keys) \ DOMAIN ImagesBeforeCall(a) :
             /\ id \in DOMAIN image_sources => id \in LoadsOf(trace[a], "image")
             /\ <<"image", id, TRUE>> \in trace[a].load_log =>
                    /\ id \in DOMAIN trace[a].images
                    /\ trace[a].images[id].key # ImagesBeforeCall(c)[id].key
                    /\ trace[a].images[id].key >= RenderApiBeforeCall(a).image_key
                    /\ trace[a].images[id].key < trace[a].render_api.image_key

\* C30 witness: Helvetica and image 0 are registered under the keys 0, removed by the
\* second of two collects, and registered again under the keys 1 by the next add.
C30_Witness ==
    /\ Len(trace) = 4
    /\ trace[1].op = "add" /\ trace[4].op = "add"
    /\ 3 \in Collects
    /\ Unresolved("Helvetica") \in FontsEvicted(3)
    /\ 0 \in ImagesEvicted(3)
    /\ trace[1].fonts[Unresolved("Helvetica")].font_key = 0
    /\ trace[1].images[0].key = 0
    /\ Unresolved("Helvetica") \in DOMAIN trace[4].fonts
    /\ trace[4].fonts[Unresolved("Helvetica")].font_key = 1
    /\ 0 \in DOMAIN trace[4].images
    /\ trace[4].images[0].key = 1


\* --------------------------------------------- claims, the text cache apart

\* C31: add_fonts_and_images and garbage_collect_fonts_and_images leave every text
\* cache entry as it is; add_text, delete_text and clear_all_texts leave the registered
\* resources, the last_frame maps, the sources and the aliases as they are.
C31_TextCacheIndependent ==
    [][/\ (TextFrameAddPhase \/ TextFrameCollect) => UNCHANGED <<text_cache, TEXT_ID_COUNTER>>
       /\ (TextFrameAddText \/ TextFrameDeleteText \/ TextFrameClearAllTexts) =>
              UNCHANGED <<ResidentSet, FrameReferenceTracker, SourceStore, AliasRegistry,
                          render_api, api_calls>>]_vars

\* C31 witness: of two texts added the first was deleted; a font and an image are
\* registered and the last phase was a collect that deleted a font instance.
C31_Witness ==
    /\ TEXT_ID_COUNTER = 2
    /\ DOMAIN text_cache = {1}
    /\ currently_registered_fonts # EmptyMap
    /\ currently_registered_images # EmptyMap
    /\ KeysIn(api_calls, "DeleteFontInstance") # {}
    /\ image_sources # EmptyMap
    /\ css_ids_to_image_ids # EmptyMap


\* ------------------------------------------- claims, the render API's side

\* The keys of the registered resources, per kind.
ResidentKeys(registered_images, registered_fonts) ==
    [font |-> {registered_fonts[id].font_key : id \in DOMAIN registered_fonts},
     instance |-> {registered_fonts[p[1]].font_instances[p[2]] :
                      p \in Instances(registered_fonts)},
     image |-> {registered_images[id].key : id \in DOMAIN registered_images},
     ok |-> TRUE]

\* What the render API holds after it has applied the updates, in their order, to the
\* keys of live: an Add makes its key live, a Delete ends it. ok turns FALSE when a
\* key that is live is added or a key that is not live is deleted.
RECURSIVE BackendApply(_, _)
BackendApply(live, updates) ==
    IF updates = <<>> THEN live
    ELSE LET u == Head(updates)
             kind == CASE u.update \in {"AddFont", "DeleteFont"} -> "font"
                       [] u.update \in {"AddFontInstance", "DeleteFontInstance"} -> "instance"
                       [] OTHER -> "image"
             adds == u.update \in {"AddFont", "AddFontInstance", "AddImage"}
             next == IF adds
                     THEN [live EXCEPT ![kind] = @ \cup {u.key},
                                       !.ok = @ /\ u.key \notin live[kind]]
                     ELSE [live EXCEPT ![kind] = @ \ {u.key},
                                       !.ok = @ /\ u.key \in live[kind]]
         IN BackendApply(next, Tail(updates))

\* C32: the updates that add_fonts_and_images or garbage_collect_fonts_and_images
\* submits, applied in their order to the keys of the resources registered before the
\* call, give the keys of the resources registered after it, adding no key that is
\* live and deleting none that is not. With nothing registered and nothing live at
\* the start, the keys live in the render API are the registered keys after every
\* phase: no key leaves the registered maps without a Delete update and none stays
\* in them after one.
C32_BackendMirror ==
    [][(AddStep \/ CollectStep) =>
          BackendApply(ResidentKeys(currently_registered_images, currently_registered_fonts),
                       UpdatesSubmitted)
              = ResidentKeys(currently_registered_images', currently_registered_fonts')]_vars

\* C32 witness: a collect that returned has deleted a font and an image, each with a
\* Delete update of its key.
C32_Witness ==
    /\ ~panicked
    /\ KeysIn(api_calls, "DeleteFont") # {}
    /\ KeysIn(api_calls, "DeleteImage") # {}
    /\ currently_registered_fonts = EmptyMap
    /\ currently_registered_images = EmptyMap


\* The font keys and the instance keys of the fonts registered as the step begins.
FontKeysRegistered == {currently_registered_fonts[id].font_key : id \in DOMAIN currently_registered_fonts}
InstanceKeysOf(loaded_font) ==
    {loaded_font.font_instances[au] : au \in DOMAIN loaded_font.font_instances}

\* C33: add_resources applies an Instance message only to a font that is registered
\* or that a Font message earlier in the same list has registered, and delete_resources
\* applies an Instance message only to a font that is registered and that no Font
\* message earlier in the list has removed; the unwrap of the font lookup fails in
\* neither, so that a phase panics only before it has submitted anything.
C33_ApplyFindsFont ==
    [][/\ AddStep =>
              /\ ~panicked'
              /\ \A j \in DOMAIN UpdatesSubmitted :
                    UpdatesSubmitted[j].update = "AddFontInstance" =>
                        \/ UpdatesSubmitted[j].font_key \in FontKeysRegistered
                        \/ \E i \in 1..(j - 1) :
                              /\ UpdatesSubmitted[i].update = "AddFont"
                              /\ UpdatesSubmitted[i].key = UpdatesSubmitted[j].font_key
       /\ CollectStep =>
              /\ panicked' => api_calls' = <<>>
              /\ \A j \in DOMAIN UpdatesSubmitted :
                    UpdatesSubmitted[j].update = "DeleteFontInstance" =>
                        \E id \in DOMAIN currently_registered_fonts :
                           /\ UpdatesSubmitted[j].key
                                  \in InstanceKeysOf(currently_registered_fonts[id])
                           /\ \A i \in 1..(j - 1) :
                                 ~ /\ UpdatesSubmitted[i].update = "DeleteFont"
                                   /\ UpdatesSubmitted[i].key
                                          = currently_registered_fonts[id].font_key]_vars

\* C33 witness: a collect has applied two Instance messages to Helvetica, which is
\* still registered and has no instance left.
C33_Witness ==
    /\ ~panicked
    /\ Cardinality(KeysIn(api_calls, "DeleteFontInstance")) = 2
    /\ Unresolved("Helvetica") \in DOMAIN currently_registered_fonts
    /\ currently_registered_fonts[Unresolved("Helvetica")].font_instances = EmptyMap


\* ------------------------------------------------- claims, sources set anew

\* The identities a phase call of SpecRepoint takes as referenced: an add phase those
\* of the frame it scans, a collect those of the tracker.
RepointFontsReferenced ==
    IF trace'[1].op = "add" THEN DOMAIN RepointScannedFonts ELSE DOMAIN last_frame_font_keys
RepointImagesReferenced ==
    IF trace'[1].op = "add" THEN RepointScannedImages ELSE last_frame_image_keys

============================================================================
